---- MODULE Spec2Model ----
(***************************************************************************)
(* Sauna-Planer: foundation plan generator (services/planGenerator.js and  *)
(* its earlier variant), record sanitising (domain/sauna.js) and the page  *)
(* layout engine (services/planLayoutEngine.js).                           *)
(*                                                                         *)
(* JavaScript numbers are modelled as exact rationals [n, d] in lowest     *)
(* terms with d > 0; the non-finite numbers are the records with d = 0.    *)
(***************************************************************************)
EXTENDS Integers, Sequences, FiniteSets, TLC

\* ------------------------------------------------------------------------
\* Numbers
\* ------------------------------------------------------------------------
Abs(i) == IF i < 0 THEN -i ELSE i

RECURSIVE GCD(_, _)
GCD(a, b) == IF b = 0 THEN a ELSE GCD(b, a % b)

LCM(a, b) == (a \div GCD(a, b)) * b

Norm(num, den) ==
  LET s == IF den < 0 THEN -1 ELSE 1
      g == GCD(Abs(num), Abs(den))
  IN  [n |-> (s * num) \div g, d |-> (s * den) \div g]

R(i) == [n |-> i, d |-> 1]
Frac(a, b) == Norm(a, b)
Zero == R(0)
One == R(1)
NaN == [n |-> 0, d |-> 0]
PosInf == [n |-> 1, d |-> 0]
NegInf == [n |-> -1, d |-> 0]
\* a property that is absent from an object
Undefined == [n |-> 0, d |-> -1]

IsFinite(a) == a.d > 0
IsNaN(a) == a = NaN \/ a = Undefined

RNeg(a) == [n |-> -a.n, d |-> a.d]
RAdd(a, b) ==
  LET l == LCM(a.d, b.d)
  IN  Norm(a.n * (l \div a.d) + b.n * (l \div b.d), l)
RSub(a, b) == RAdd(a, RNeg(b))
RMul(a, b) ==
  LET g1 == GCD(Abs(a.n), b.d)
      g2 == GCD(Abs(b.n), a.d)
  IN  Norm((a.n \div g1) * (b.n \div g2), (a.d \div g2) * (b.d \div g1))
RInv(a) == Norm(a.d, a.n)
RDiv(a, b) == RMul(a, RInv(b))
RHalf(a) == RMul(a, Frac(1, 2))
\* an / ad < bn / bd for ad, bd > 0, by comparing the integer parts and then the
\* inverted remainders, so that no product is formed
RECURSIVE FracLt(_, _, _, _)
FracLt(an, ad, bn, bd) ==
  IF an \div ad # bn \div bd THEN an \div ad < bn \div bd
  ELSE IF bn % bd = 0 THEN FALSE
  ELSE IF an % ad = 0 THEN TRUE
  ELSE FracLt(bd, bn % bd, ad, an % ad)

RLt(a, b) == FracLt(a.n, a.d, b.n, b.d)
RLe(a, b) == a = b \/ RLt(a, b)
RMax(a, b) == IF RLt(a, b) THEN b ELSE a
RMin(a, b) == IF RLt(b, a) THEN b ELSE a
RFloor(a) == R(a.n \div a.d)
IsInt(a) == a.d = 1

\* a / b of two finite numbers as JavaScript computes it
JsDiv(a, b) ==
  IF b.n # 0 THEN RDiv(a, b)
  ELSE IF a.n = 0 THEN NaN
  ELSE IF a.n > 0 THEN PosInf ELSE NegInf

\* Math.max of two numbers of which either may be non-finite
JsMax(a, b) ==
  IF IsNaN(a) \/ IsNaN(b) THEN NaN
  ELSE IF a = PosInf \/ b = PosInf THEN PosInf
  ELSE IF a = NegInf THEN b
  ELSE IF b = NegInf THEN a
  ELSE RMax(a, b)

\* a < b of two numbers of which either may be non-finite
JsLt(a, b) ==
  IF IsNaN(a) \/ IsNaN(b) THEN FALSE
  ELSE IF a = b THEN FALSE
  ELSE IF a = NegInf \/ b = PosInf THEN TRUE
  ELSE IF a = PosInf \/ b = NegInf THEN FALSE
  ELSE RLt(a, b)

\* Math.max(0, Number(v) || 0)
NonNeg(v) ==
  IF IsNaN(v) THEN Zero
  ELSE IF v = PosInf THEN PosInf
  ELSE IF v = NegInf THEN Zero
  ELSE RMax(Zero, v)

RECURSIVE MapNonNeg(_)
MapNonNeg(s) == IF s = << >> THEN << >> ELSE <<NonNeg(Head(s))>> \o MapNonNeg(Tail(s))

\* ------------------------------------------------------------------------
\* Foot centres and derived dimensions
\* ------------------------------------------------------------------------
\* the running sum without the foot thickness
RECURSIVE PushCentersGapOnly(_, _, _)
PushCentersGapOnly(centers, distances, footThickness) ==
  IF distances = << >> THEN centers
  ELSE PushCentersGapOnly(
         Append(centers, RAdd(centers[Len(centers)], NonNeg(Head(distances)))),
         Tail(distances), footThickness)

RECURSIVE PushCenters(_, _, _)
PushCenters(centers, distances, footThickness) ==
  IF distances = << >> THEN centers
  ELSE PushCenters(
         Append(centers,
                RAdd(RAdd(centers[Len(centers)], footThickness), NonNeg(Head(distances)))),
         Tail(distances), footThickness)

computeFootCenters(saunaConfig) ==
  LET footThickness == NonNeg(saunaConfig.footThickness)
  IN  PushCenters(<<RHalf(footThickness)>>, saunaConfig.footDistances, footThickness)

computeFootCentersV1(saunaConfig) ==
  LET footThickness == NonNeg(saunaConfig.footThickness)
  IN  PushCenters(<<Zero>>, saunaConfig.footDistances, footThickness)

RECURSIVE ReduceInnerSum(_, _)
ReduceInnerSum(sum, distances) ==
  IF distances = << >> THEN sum
  ELSE ReduceInnerSum(RAdd(sum, NonNeg(Head(distances))), Tail(distances))

\* the derived dimensions with the feet counted as the gaps are
computeDerivedDimensionsGapCount(saunaConfig) ==
  LET distances == saunaConfig.footDistances
      footThickness == NonNeg(saunaConfig.footThickness)
      footCount == Len(distances)
      innerSum == ReduceInnerSum(Zero, distances)
      totalFootSpan == RAdd(innerSum, RMul(R(footCount), footThickness))
      firstToLast == RMax(Zero, RSub(totalFootSpan, footThickness))
  IN  [footCount |-> footCount, totalFootSpan |-> totalFootSpan, firstToLast |-> firstToLast]

computeDerivedDimensions(saunaConfig) ==
  LET distances == saunaConfig.footDistances
      footThickness == NonNeg(saunaConfig.footThickness)
      footCount == Len(distances) + 1
      innerSum == ReduceInnerSum(Zero, distances)
      totalFootSpan == RAdd(innerSum, RMul(R(footCount), footThickness))
      firstToLast == RMax(Zero, RSub(totalFootSpan, footThickness))
  IN  [footCount |-> footCount, totalFootSpan |-> totalFootSpan, firstToLast |-> firstToLast]

computeDerivedDimensionsV1(saunaConfig) ==
  LET centers == computeFootCentersV1(saunaConfig)
      footThickness == NonNeg(saunaConfig.footThickness)
      firstToLast == RSub(centers[Len(centers)], centers[1])
      totalFootSpan == RAdd(firstToLast, footThickness)
  IN  [footCount |-> Len(centers), totalFootSpan |-> totalFootSpan, firstToLast |-> firstToLast]

\* ------------------------------------------------------------------------
\* Sauna records: sanitising and validation
\* ------------------------------------------------------------------------
\* Math.round(number * 100) / 100
round(number) == RDiv(RFloor(RAdd(RMul(number, R(100)), Frac(1, 2))), R(100))

sanitizeNumber(value) ==
  IF ~IsFinite(value) \/ RLt(value, Zero) THEN Zero ELSE round(value)

RECURSIVE MapSanitizeNumber(_)
MapSanitizeNumber(s) ==
  IF s = << >> THEN << >> ELSE <<sanitizeNumber(Head(s))>> \o MapSanitizeNumber(Tail(s))

sanitizeExportSettings(raw) ==
  [templateId |-> IF raw.templateId # "" THEN raw.templateId ELSE "A4_PORTRAIT_STANDARD",
   format |-> IF raw.format = "svg" THEN "svg" ELSE "pdf"]

sanitizeSauna(raw) ==
  [name |-> IF raw.name # "" THEN raw.name ELSE "Unbenannt",
   exportSettings |-> sanitizeExportSettings(raw.exportSettings),
   config |->
    [barrelLength |-> sanitizeNumber(raw.config.barrelLength),
     barrelWidth |-> sanitizeNumber(raw.config.barrelWidth),
     footWidth |-> sanitizeNumber(raw.config.footWidth),
     footThickness |-> sanitizeNumber(raw.config.footThickness),
     foundationWidth |-> sanitizeNumber(raw.config.foundationWidth),
     foundationDepth |-> sanitizeNumber(raw.config.foundationDepth),
     footDistances |-> MapSanitizeNumber(raw.config.footDistances)]]

\* a < 0 in place of a <= 0
JsLeZeroStrict(a) == ~IsNaN(a) /\ (a = NegInf \/ (IsFinite(a) /\ RLt(a, Zero)))

\* a <= 0 as JavaScript evaluates it (false for NaN)
JsLeZero(a) == ~IsNaN(a) /\ (a = NegInf \/ (IsFinite(a) /\ RLe(a, Zero)))
JsLtZero(a) == ~IsNaN(a) /\ (a = NegInf \/ (IsFinite(a) /\ RLt(a, Zero)))

WarnBarrel == "Fassmasse sollten groesser als 0 cm sein."
WarnFoot == "Fussmasse sollten groesser als 0 cm sein."
WarnFoundation == "Fundamentbreite und Frosttiefe sollten groesser als 0 cm sein."
WarnNoDistance == "Es ist kein Innenabstand definiert. Damit wird nur ein Fuss angenommen."
WarnNegativeDistance == "Innenabstaende zwischen Fuessen duerfen nicht negativ sein."

validateSauna(sauna) ==
  LET config == sauna.config
  IN  (IF JsLeZero(config.barrelLength) \/ JsLeZero(config.barrelWidth)
         THEN <<WarnBarrel>> ELSE << >>)
      \o (IF JsLeZero(config.footWidth) \/ JsLeZero(config.footThickness)
            THEN <<WarnFoot>> ELSE << >>)
      \o (IF JsLeZero(config.foundationWidth) \/ JsLeZero(config.foundationDepth)
            THEN <<WarnFoundation>> ELSE << >>)
      \o (IF Len(config.footDistances) = 0 THEN <<WarnNoDistance>> ELSE << >>)
      \o (IF \E i \in 1..Len(config.footDistances) : JsLtZero(config.footDistances[i])
            THEN <<WarnNegativeDistance>> ELSE << >>)

\* ------------------------------------------------------------------------
\* Plan generator (services/planGenerator.js)
\* ------------------------------------------------------------------------
LAYOUT ==
  [xlimLeft |-> R(-40),
   xlimRightOffset |-> Frac(624, 10),
   ylimBottom |-> R(-60),
   ylimTopOffset |-> R(175),
   headlineYOffset |-> R(15),
   legendX |-> R(-35),
   legendY |-> R(53),
   legendLineSpacing |-> R(12),
   legendBoxTextGap |-> R(5),
   massLinksAussenAbstand |-> Frac(-26325, 1000),
   massLinksInnenAbstand |-> Frac(-14175, 1000),
   massRechtsInnenAbstand |-> Frac(14175, 1000),
   massRechtsAussenAbstand |-> Frac(26325, 1000),
   massUntenAbstand |-> R(20)]

WORK_AREA_HEIGHT == 75
HATCH_SPACING == 3
TEXT_OFFSET == Frac(25, 10)

\* Number(value) || 0, then String(n) for an integer and n.toFixed(1) otherwise
fmt(value) ==
  LET n == IF IsNaN(value) THEN Zero ELSE value
      tenths == RFloor(RAdd(RMul(n, R(10)), Frac(1, 2))).n
  IN  IF IsInt(n) THEN ToString(n.n)
      ELSE ToString(tenths \div 10) \o "." \o ToString(tenths % 10)

\* object property access: a property that is absent reads as undefined
HasAttr(e, name) == name \in DOMAIN e
Attr(e, name) == IF name \in DOMAIN e THEN e[name] ELSE Undefined

\* document.createElementNS, setAttribute for every entry of attrs, textContent
createEl(name, attrs, textContent) ==
  IF textContent = "" THEN [tag |-> name] @@ attrs
  ELSE [tag |-> name, text |-> textContent] @@ attrs

\* SVG uses Y-down, the plan coordinates are Y-up
flipY(diagramYMax, diagramYMin, y) == RAdd(RSub(diagramYMax, y), diagramYMin)

drawVerticalMeasure(xPos, yStartUp, yEndUp, label, color, textSide, fontSize, yMaxD, yMinD) ==
  LET y1 == flipY(yMaxD, yMinD, yStartUp)
      y2 == flipY(yMaxD, yMinD, yEndUp)
      yTop == RMin(y1, y2)
      yBottom == RMax(y1, y2)
      textY == RHalf(RAdd(yTop, yBottom))
      textX == IF textSide = "right" THEN RSub(xPos, TEXT_OFFSET) ELSE RAdd(xPos, TEXT_OFFSET)
      anchor == IF textSide = "right" THEN "end" ELSE "start"
      estWidth == RMul(RMul(R(Len(label)), fontSize), Frac(6, 10))
      boxX == IF textSide = "right" THEN RSub(RSub(textX, estWidth), R(2)) ELSE RSub(textX, R(2))
  IN  << createEl("line", [x1 |-> Zero, y1 |-> yTop, x2 |-> xPos, y2 |-> yTop,
                           cls |-> "hilfs-line"], ""),
         createEl("line", [x1 |-> Zero, y1 |-> yBottom, x2 |-> xPos, y2 |-> yBottom,
                           cls |-> "hilfs-line"], ""),
         createEl("line", [x1 |-> xPos, y1 |-> yTop, x2 |-> xPos, y2 |-> yBottom,
                           stroke |-> color, strokeWidth |-> Frac(15, 10)], ""),
         createEl("rect", [x |-> boxX, y |-> RSub(textY, RMul(fontSize, Frac(6, 10))),
                           width |-> RAdd(estWidth, R(4)),
                           height |-> RMul(fontSize, Frac(13, 10)),
                           fill |-> "white", rx |-> R(2)], ""),
         createEl("text", [x |-> textX, y |-> textY, fill |-> color, fontSize |-> fontSize,
                           textAnchor |-> anchor], label) >>

drawHorizontalMeasure(yPosUp, xStart, xEnd, label, color, textSide, fontSize, yMaxD, yMinD) ==
  LET yLine == flipY(yMaxD, yMinD, yPosUp)
      yTextOffset == IF textSide = "below" THEN RAdd(TEXT_OFFSET, R(3))
                     ELSE RNeg(RAdd(TEXT_OFFSET, R(3)))
      yArrow == yLine
      textX == RHalf(RAdd(xStart, xEnd))
      textY == RAdd(yLine, yTextOffset)
      estWidth == RMul(RMul(R(Len(label)), fontSize), Frac(6, 10))
  IN  << createEl("line", [x1 |-> xStart, y1 |-> flipY(yMaxD, yMinD, Zero), x2 |-> xStart,
                           y2 |-> yLine, cls |-> "hilfs-line"], ""),
         createEl("line", [x1 |-> xEnd, y1 |-> flipY(yMaxD, yMinD, Zero), x2 |-> xEnd,
                           y2 |-> yLine, cls |-> "hilfs-line"], ""),
         createEl("line", [x1 |-> xStart, y1 |-> yArrow, x2 |-> xEnd, y2 |-> yArrow,
                           stroke |-> color, strokeWidth |-> Frac(15, 10)], ""),
         createEl("rect", [x |-> RSub(RSub(textX, RHalf(estWidth)), R(2)),
                           y |-> RSub(textY, RMul(fontSize, Frac(6, 10))),
                           width |-> RAdd(estWidth, R(4)),
                           height |-> RMul(fontSize, Frac(13, 10)),
                           fill |-> "white", rx |-> R(2)], ""),
         createEl("text", [x |-> textX, y |-> textY, fill |-> color, fontSize |-> fontSize,
                           textAnchor |-> "middle"], label) >>

RECURSIVE Flatten(_)
Flatten(ss) == IF ss = << >> THEN << >> ELSE Head(ss) \o Flatten(Tail(ss))

RECURSIVE PushFussPositionenNoGap(_, _, _)
PushFussPositionenNoGap(fussPositionen, footDistances, fussBreite) ==
  IF footDistances = << >> THEN fussPositionen
  ELSE LET yCurrent == fussPositionen[Len(fussPositionen)].yEnd
       IN  PushFussPositionenNoGap(
             Append(fussPositionen, [yStart |-> yCurrent, yEnd |-> RAdd(yCurrent, fussBreite)]),
             Tail(footDistances), fussBreite)

RECURSIVE PushFussPositionen(_, _, _)
PushFussPositionen(fussPositionen, footDistances, fussBreite) ==
  IF footDistances = << >> THEN fussPositionen
  ELSE LET yCurrent == RAdd(fussPositionen[Len(fussPositionen)].yEnd, Head(footDistances))
       IN  PushFussPositionen(
             Append(fussPositionen, [yStart |-> yCurrent, yEnd |-> RAdd(yCurrent, fussBreite)]),
             Tail(footDistances), fussBreite)

RECURSIVE HatchLines(_, _, _, _, _)
HatchLines(hatchY, arbeitYEnd, breiteCm, yMaxD, yMinD) ==
  IF ~RLt(hatchY, arbeitYEnd) THEN << >>
  ELSE LET sy == flipY(yMaxD, yMinD, hatchY)
       IN  <<createEl("line", [x1 |-> Zero, y1 |-> sy, x2 |-> breiteCm, y2 |-> sy,
                               cls |-> "hatch-line"], "")>>
           \o HatchLines(RAdd(hatchY, R(HATCH_SPACING)), arbeitYEnd, breiteCm, yMaxD, yMinD)

WarnFootWidth == "Warnung: Fussbreite ist ungueltig (<= 0)."
WarnFootThickness == "Warnung: Fussdicke ist ungueltig (<= 0)."
WarnFoundationWidth == "Warnung: Fundamentbreite ist ungueltig (<= 0)."
WarnFootCount == "Hinweis: Mindestens 2 Fuesse (1 Abstand) empfohlen."

\* createEl("g", { class }) with the children appended to it
createGroup(cls, els) == [tag |-> "g", cls |-> cls, els |-> els]

\* the warnings without the foot-count hint
planWarningsNoFootCount(breiteCm, fussBreite, fundamentBreite, footDistances) ==
  (IF RLe(breiteCm, Zero) THEN <<WarnFootWidth>> ELSE << >>)
  \o (IF RLe(fussBreite, Zero) THEN <<WarnFootThickness>> ELSE << >>)
  \o (IF RLe(fundamentBreite, Zero) THEN <<WarnFoundationWidth>> ELSE << >>)

\* the warnings generatePlanSvg pushes for its sanitised inputs
planWarnings(breiteCm, fussBreite, fundamentBreite, footDistances) ==
  (IF RLe(breiteCm, Zero) THEN <<WarnFootWidth>> ELSE << >>)
  \o (IF RLe(fussBreite, Zero) THEN <<WarnFootThickness>> ELSE << >>)
  \o (IF RLe(fundamentBreite, Zero) THEN <<WarnFoundationWidth>> ELSE << >>)
  \o (IF Len(footDistances) < 1 THEN <<WarnFootCount>> ELSE << >>)

createNode(tag) == [tag |-> tag, els |-> << >>]

\* steps 1-4 of generatePlanSvg: foot and foundation positions, work area and
\* diagram limits
planLayout(breiteCm, fussBreite, fundamentBreite, footDistances) ==
  LET fussPositionen ==
        PushFussPositionen(<<[yStart |-> Zero, yEnd |-> fussBreite]>>, footDistances, fussBreite)
      fundamentPositionen ==
        [i \in 1..Len(fussPositionen) |->
          LET yMitte == RHalf(RAdd(fussPositionen[i].yStart, fussPositionen[i].yEnd))
          IN  [yMitte |-> yMitte,
               yStart |-> RSub(yMitte, RHalf(fundamentBreite)),
               yEnd |-> RAdd(yMitte, RHalf(fundamentBreite))]]
      lastFundEnd == fundamentPositionen[Len(fussPositionen)].yEnd
      arbeitYStart == IF Len(fussPositionen) > 0 THEN lastFundEnd ELSE Zero
      arbeitYEnd == RAdd(arbeitYStart, R(WORK_AREA_HEIGHT))
      yMax == RAdd(IF Len(fussPositionen) > 0 THEN RMax(lastFundEnd, arbeitYEnd) ELSE R(100),
                   LAYOUT.ylimTopOffset)
  IN  [breiteCm |-> breiteCm, fussBreite |-> fussBreite,
       fussPositionen |-> fussPositionen,
       fundamentPositionen |-> fundamentPositionen,
       arbeitYStart |-> arbeitYStart, arbeitYEnd |-> arbeitYEnd, yMax |-> yMax,
       diagramXMin |-> LAYOUT.xlimLeft,
       diagramXMax |-> RAdd(breiteCm, LAYOUT.xlimRightOffset),
       diagramYMin |-> LAYOUT.ylimBottom,
       diagramYMax |-> yMax]

\* step 6: one rectangle per foundation
planFoundations(L) ==
  [i \in 1..Len(L.fundamentPositionen) |->
    createEl("rect",
      [x |-> Zero,
       y |-> flipY(L.diagramYMax, L.diagramYMin, L.fundamentPositionen[i].yEnd),
       width |-> L.breiteCm,
       height |-> RSub(L.fundamentPositionen[i].yEnd, L.fundamentPositionen[i].yStart),
       cls |-> "fundament"], "")]

\* step 7: one rectangle and one number per foot
planFeet(L) ==
  Flatten([i \in 1..Len(L.fussPositionen) |->
    LET fuss == L.fussPositionen[i]
        fussH == RSub(fuss.yEnd, fuss.yStart)
        fy == flipY(L.diagramYMax, L.diagramYMin, fuss.yEnd)
    IN  << createEl("rect", [x |-> Zero, y |-> fy, width |-> L.breiteCm, height |-> fussH,
                             cls |-> "saunafuss"], ""),
           createEl("text", [x |-> RHalf(L.breiteCm), y |-> RAdd(fy, RHalf(fussH)),
                             cls |-> "fuss-label", textAnchor |-> "middle"],
                    "Fuss " \o ToString(i)) >>])

\* step 8: the hatched work area
planWorkArea(L) ==
  << createEl("rect", [x |-> Zero, y |-> flipY(L.diagramYMax, L.diagramYMin, L.arbeitYEnd),
                       width |-> L.breiteCm, height |-> RSub(L.arbeitYEnd, L.arbeitYStart),
                       cls |-> "arbeitsbereich"], "") >>
  \o HatchLines(L.arbeitYStart, L.arbeitYEnd, L.breiteCm, L.diagramYMax, L.diagramYMin)

\* step 9: the dimensions
planMeasures(L, dimFontSize) ==
  LET nFund == Len(L.fundamentPositionen)
      posLinksAussen == LAYOUT.massLinksAussenAbstand
      posLinksInnen == LAYOUT.massLinksInnenAbstand
      posRechtsInnen == RAdd(L.breiteCm, LAYOUT.massRechtsInnenAbstand)
      posRechtsAussen == RAdd(L.breiteCm, LAYOUT.massRechtsAussenAbstand)
      posUnten == RSub(IF nFund > 0 THEN L.fundamentPositionen[1].yStart ELSE Zero,
                       LAYOUT.massUntenAbstand)
  IN  Flatten([i \in 1..nFund |->
        drawVerticalMeasure(posLinksAussen, L.fundamentPositionen[i].yStart,
          L.fundamentPositionen[i].yEnd,
          fmt(RSub(L.fundamentPositionen[i].yEnd, L.fundamentPositionen[i].yStart)),
          "darkgreen", "right", dimFontSize, L.diagramYMax, L.diagramYMin)])
      \o Flatten([i \in 1..Len(L.fussPositionen) |->
        drawVerticalMeasure(posLinksInnen, L.fussPositionen[i].yStart, L.fussPositionen[i].yEnd,
          fmt(L.fussBreite), "darkred", "right", dimFontSize, L.diagramYMax, L.diagramYMin)])
      \o Flatten([i \in 1..(Len(L.fussPositionen) - 1) |->
        drawVerticalMeasure(posRechtsInnen, L.fussPositionen[i].yEnd,
          L.fussPositionen[i + 1].yStart,
          fmt(RSub(L.fussPositionen[i + 1].yStart, L.fussPositionen[i].yEnd)),
          "red", "left", dimFontSize, L.diagramYMax, L.diagramYMin)])
      \o (IF nFund > 0
            THEN drawVerticalMeasure(posRechtsAussen, L.fundamentPositionen[1].yStart,
                   L.fundamentPositionen[nFund].yEnd,
                   fmt(RSub(L.fundamentPositionen[nFund].yEnd, L.fundamentPositionen[1].yStart))
                     \o "cm",
                   "blue", "left", R(12), L.diagramYMax, L.diagramYMin)
            ELSE << >>)
      \o drawVerticalMeasure(posRechtsAussen, L.arbeitYStart, L.arbeitYEnd,
           fmt(R(WORK_AREA_HEIGHT)), "red", "left", R(10), L.diagramYMax, L.diagramYMin)
      \o drawHorizontalMeasure(posUnten, Zero, L.breiteCm, fmt(L.breiteCm), "purple", "below",
           R(11), L.diagramYMax, L.diagramYMin)

\* step 10: the legend
planLegend(L, foundationDepth) ==
  LET legendStartY == RSub(L.yMax, LAYOUT.legendY)
      items ==
        << [color |-> "lightgray",
            text |-> "Streifenfundament frostsichere Tiefe " \o fmt(foundationDepth) \o "cm"],
           [color |-> "saddlebrown", text |-> "Saunafuss"],
           [color |-> "red", text |-> "Arbeitsbereich Monteur/Elektriker"] >>
      boxW == R(15)
      boxH == R(8)
  IN  Flatten([i \in 1..Len(items) |->
        LET iy == flipY(L.diagramYMax, L.diagramYMin,
                        RSub(legendStartY, RMul(R(i - 1), LAYOUT.legendLineSpacing)))
        IN  << createEl("rect", [x |-> LAYOUT.legendX, y |-> RSub(iy, RHalf(boxH)),
                                 width |-> boxW, height |-> boxH, fill |-> items[i].color,
                                 stroke |-> "black", strokeWidth |-> R(1)], ""),
               createEl("text", [x |-> RAdd(RAdd(LAYOUT.legendX, boxW), LAYOUT.legendBoxTextGap),
                                 y |-> iy, cls |-> "legend-text"], items[i].text) >>])

\* step 11: the headline
planHeadline(L, title) ==
  << createEl("text",
       [x |-> RHalf(L.breiteCm),
        y |-> flipY(L.diagramYMax, L.diagramYMin, RSub(L.yMax, LAYOUT.headlineYOffset)),
        cls |-> "headline", textAnchor |-> "middle"], title) >>

\* step 13: the bounds of the shapes
planGeometryBounds(L) ==
  LET firstFundStart ==
        IF Len(L.fundamentPositionen) > 0 THEN L.fundamentPositionen[1].yStart ELSE Zero
  IN  [minX |-> Zero,
       minY |-> flipY(L.diagramYMax, L.diagramYMin, L.arbeitYEnd),
       maxX |-> L.breiteCm,
       maxY |-> flipY(L.diagramYMax, L.diagramYMin, firstFundStart),
       width |-> L.breiteCm,
       height |-> RSub(L.arbeitYEnd, firstFundStart)]

\* step 13: the bounds of the annotations
planAnnotationBounds(L) ==
  [minX |-> L.diagramXMin, minY |-> Zero, maxX |-> L.diagramXMax,
   maxY |-> RSub(L.diagramYMax, L.diagramYMin),
   width |-> RSub(L.diagramXMax, L.diagramXMin),
   height |-> RSub(L.diagramYMax, L.diagramYMin)]

\* step 5 and 12: the svg element with its layer groups in drawing order
planSvgElement(L, dimFontSize, foundationDepth, title) ==
  [tag |-> "svg",
   viewBox |-> [x |-> L.diagramXMin, y |-> Zero,
                width |-> RSub(L.diagramXMax, L.diagramXMin),
                height |-> RSub(L.diagramYMax, L.diagramYMin)],
   nodes |-> << createNode("defs"), createNode("style"),
                createGroup("layer-grid", << >>),
                createGroup("layer-foundation", planFoundations(L)),
                createGroup("layer-feet", planFeet(L)),
                createGroup("layer-workarea", planWorkArea(L)),
                createGroup("layer-measures", planMeasures(L, dimFontSize)),
                createGroup("layer-legend", planLegend(L, foundationDepth)),
                createGroup("layer-headline", planHeadline(L, title)) >>]

planResult(L, metrics, warnings, dimFontSize, foundationDepth, title) ==
  [svgElement |-> planSvgElement(L, dimFontSize, foundationDepth, title),
   metrics |-> metrics,
   warnings |-> warnings,
   geometryBounds |-> planGeometryBounds(L),
   annotationBounds |-> planAnnotationBounds(L)]

generatePlanSvg(saunaConfig, options) ==
  planResult(
    planLayout(NonNeg(saunaConfig.footWidth), NonNeg(saunaConfig.footThickness),
               NonNeg(saunaConfig.foundationWidth), MapNonNeg(saunaConfig.footDistances)),
    computeDerivedDimensions(saunaConfig),
    planWarnings(NonNeg(saunaConfig.footWidth), NonNeg(saunaConfig.footThickness),
                 NonNeg(saunaConfig.foundationWidth), MapNonNeg(saunaConfig.footDistances)),
    IF IsNaN(options.dimTextFontSizePx) \/ options.dimTextFontSizePx = Zero
      THEN R(9) ELSE RMax(R(8), options.dimTextFontSizePx),
    IF IsNaN(saunaConfig.foundationDepth) \/ saunaConfig.foundationDepth = Zero
      THEN R(80) ELSE RMax(Zero, saunaConfig.foundationDepth),
    IF options.title = "" THEN "Fundamentplan" ELSE options.title)

\* ------------------------------------------------------------------------
\* Template registry (services/templateRegistry.js)
\* ------------------------------------------------------------------------
templates ==
  << [id |-> "A4_PORTRAIT_STANDARD", label |-> "A4 Hochformat Standard",
      page |-> [widthMm |-> R(210), heightMm |-> R(297), orientation |-> "portrait"],
      margins |-> [topMm |-> R(2), rightMm |-> R(2), bottomMm |-> R(2), leftMm |-> R(2)],
      regions |-> [headerMm |-> R(22), legendMm |-> R(30), footerMm |-> R(0), gapMm |-> R(4)]],
     [id |-> "A4_LANDSCAPE_STANDARD", label |-> "A4 Querformat Standard",
      page |-> [widthMm |-> R(297), heightMm |-> R(210), orientation |-> "landscape"],
      margins |-> [topMm |-> R(2), rightMm |-> R(2), bottomMm |-> R(2), leftMm |-> R(2)],
      regions |-> [headerMm |-> R(20), legendMm |-> R(24), footerMm |-> R(0), gapMm |-> R(4)]] >>

\* a JavaScript value that is a string, and the values that are not
JsString(s) == [t |-> "string", v |-> s]
JsUndefined == [t |-> "undefined"]
JsNull == [t |-> "null"]
JsNumber(i) == [t |-> "number", num |-> i]

\* template.id === templateId
IdStrictEquals(id, templateId) == templateId.t = "string" /\ templateId.v = id

\* { ...templates[0] }: a copy of the top-level fields of the first template
getDefaultTemplate(registry) == registry[1]

\* the first template regardless of the id
getTemplateByIdFirst(registry, templateId) == registry[1]

\* templates.find(...) and a copy of its top-level fields, or the default
getTemplateById(registry, templateId) ==
  LET found == {i \in 1..Len(registry) : IdStrictEquals(registry[i].id, templateId)}
  IN  IF found # {} THEN registry[CHOOSE i \in found : \A j \in found : i <= j]
      ELSE getDefaultTemplate(registry)

\* index of the registry entry whose nested objects the result shares
templateIndex(registry, templateId) ==
  LET found == {i \in 1..Len(registry) : IdStrictEquals(registry[i].id, templateId)}
  IN  IF found # {} THEN CHOOSE i \in found : \A j \in found : i <= j ELSE 1

\* templates.map((template) => ({ ...template }))
listTemplates(registry) == registry

\* ------------------------------------------------------------------------
\* Page layout engine (services/planLayoutEngine.js)
\* ------------------------------------------------------------------------
MM_TO_PX == Frac(960, 254)
TARGET_FILL_RATIO == Frac(98, 100)
MIN_DOMINANT_COVERAGE == Frac(2, 3)

mmToPx(mm) == RMul(mm, MM_TO_PX)

\* the JavaScript null
Null == [null |-> TRUE]

\* Number(value) of a number or of undefined
ToNumber(v) == IF v = Undefined THEN NaN ELSE v

prependWarning(existing, message) ==
  IF existing # "" THEN existing \o " " \o message ELSE message

createBounds(minX, minY, maxX, maxY) ==
  [xMin |-> minX, yMin |-> minY, minX |-> minX, minY |-> minY, maxX |-> maxX, maxY |-> maxY,
   width |-> RMax(One, RSub(maxX, minX)),
   height |-> RMax(One, RSub(maxY, minY))]

normalizeBoundsChecked(bounds, minX, minY, width, height) ==
  IF ~(IsFinite(minX) /\ IsFinite(minY) /\ IsFinite(width) /\ IsFinite(height)) THEN Null
  ELSE IF RLe(width, Zero) \/ RLe(height, Zero) THEN Null
  ELSE LET maxX == IF IsFinite(ToNumber(Attr(bounds, "maxX"))) THEN bounds.maxX
                   ELSE RAdd(minX, width)
           maxY == IF IsFinite(ToNumber(Attr(bounds, "maxY"))) THEN bounds.maxY
                   ELSE RAdd(minY, height)
       IN  IF RLe(maxX, minX) \/ RLe(maxY, minY) THEN Null
           ELSE createBounds(minX, minY, maxX, maxY)

normalizeBounds(bounds) ==
  IF bounds = Null THEN Null
  ELSE normalizeBoundsChecked(bounds,
         ToNumber(IF Attr(bounds, "xMin") = Undefined THEN Attr(bounds, "minX") ELSE bounds.xMin),
         ToNumber(IF Attr(bounds, "yMin") = Undefined THEN Attr(bounds, "minY") ELSE bounds.yMin),
         ToNumber(Attr(bounds, "width")),
         ToNumber(Attr(bounds, "height")))

\* planSvg.viewBox.baseVal: all zero when the svg has no viewBox attribute
viewBoxBaseVal(planSvg) ==
  IF HasAttr(planSvg, "viewBox") THEN planSvg.viewBox
  ELSE [x |-> Zero, y |-> Zero, width |-> Zero, height |-> Zero]

getBoundsFromViewBox(planSvg) ==
  LET vb == viewBoxBaseVal(planSvg)
      minX == IF RLt(Zero, vb.width) THEN vb.x ELSE Zero
      minY == IF RLt(Zero, vb.height) THEN vb.y ELSE Zero
      width == IF RLt(Zero, vb.width) THEN vb.width ELSE R(1000)
      height == IF RLt(Zero, vb.height) THEN vb.height ELSE R(1000)
  IN  createBounds(minX, minY, RAdd(minX, width), RAdd(minY, height))

unionBounds(a, b) ==
  createBounds(RMin(a.minX, b.minX), RMin(a.minY, b.minY),
               RMax(a.maxX, b.maxX), RMax(a.maxY, b.maxY))

WarnBoundsFallback == "Geometrie-Bounds ungueltig. Fallback auf gesamte ViewBox verwendet."
WarnScaleFallback == "Skalierung ungueltig. Fallback-Skalierung 1 verwendet."
InfoLowCoverage == "Info: Dominante Containerabdeckung < 66,7%."
WarnNoGeometryGroup == "Geometriegruppe fehlt. Fallback auf gesamtes Plan-SVG verwendet."
WarnNoAnnotationGroup ==
  "Annotationsgruppe fehlt. Keine separate Annotation-Overlay-Projektion moeglich."

\* the source bounds without the fallback warning
fitSourceSilent(fallbackBounds, geometryBounds, annotationBounds) ==
  LET sourceBounds0 == IF geometryBounds = Null THEN fallbackBounds ELSE geometryBounds
  IN  [sourceBounds |-> IF annotationBounds # Null
                          THEN unionBounds(sourceBounds0, annotationBounds)
                          ELSE sourceBounds0,
       annotationBounds |-> annotationBounds,
       warning |-> ""]

\* buildFitTransform, first part: the source bounds and the fallback warning
fitSource(fallbackBounds, geometryBounds, annotationBounds) ==
  LET sourceBounds0 == IF geometryBounds = Null THEN fallbackBounds ELSE geometryBounds
  IN  [sourceBounds |-> IF annotationBounds # Null
                          THEN unionBounds(sourceBounds0, annotationBounds)
                          ELSE sourceBounds0,
       annotationBounds |-> annotationBounds,
       warning |-> IF geometryBounds = Null THEN WarnBoundsFallback ELSE ""]

\* the scale that fills the slot, without the fill ratio
fitScaleCandidateFull(slot, orientedWidth, orientedHeight) ==
  RMin(RDiv(slot.width, orientedWidth), RDiv(slot.height, orientedHeight))

\* TARGET_FILL_RATIO * Math.min(widthScale, heightScale)
fitScaleCandidate(slot, orientedWidth, orientedHeight) ==
  RMul(TARGET_FILL_RATIO,
       RMin(RDiv(slot.width, orientedWidth), RDiv(slot.height, orientedHeight)))

\* the drawn content flush with the start of the slot
fitOffsetFlush(slotStart, slotSize, drawSize) == slotStart

\* slot start + (slot size - drawn size) / 2
fitOffset(slotStart, slotSize, drawSize) ==
  RAdd(slotStart, RHalf(RSub(slotSize, drawSize)))

\* the coverage with the width ratio reported as the dominant one
fitCoverageWidthOnly(slot, drawW, drawH) ==
  [widthRatio |-> JsDiv(drawW, slot.width),
   heightRatio |-> JsDiv(drawH, slot.height),
   dominantRatio |-> JsDiv(drawW, slot.width),
   dominantCoverage |-> JsDiv(drawW, slot.width)]

fitCoverage(slot, drawW, drawH) ==
  [widthRatio |-> JsDiv(drawW, slot.width),
   heightRatio |-> JsDiv(drawH, slot.height),
   dominantRatio |-> JsMax(JsDiv(drawW, slot.width), JsDiv(drawH, slot.height)),
   dominantCoverage |-> JsMax(JsDiv(drawW, slot.width), JsDiv(drawH, slot.height))]

\* buildFitTransform, last part: offsets, coverage, transform and projection
fitPlaced(slot, src, scale, warning) ==
  LET drawW == RMul(src.sourceBounds.width, scale)
      drawH == RMul(src.sourceBounds.height, scale)
      offsetX == fitOffset(slot.x, slot.width, drawW)
      offsetY == fitOffset(slot.y, slot.height, drawH)
      coverage == fitCoverage(slot, drawW, drawH)
  IN  [transform |-> << [fn |-> "translate", x |-> offsetX, y |-> offsetY],
                        [fn |-> "scale", k |-> scale],
                        [fn |-> "translate", x |-> RNeg(src.sourceBounds.xMin),
                                             y |-> RNeg(src.sourceBounds.yMin)] >>,
       sourceBounds |-> src.sourceBounds,
       annotationBounds |-> src.annotationBounds,
       targetSlot |-> slot,
       scale |-> scale,
       rotationDeg |-> Zero,
       warning |-> IF JsLt(coverage.dominantCoverage, MIN_DOMINANT_COVERAGE)
                     THEN prependWarning(warning, InfoLowCoverage) ELSE warning,
       coverage |-> coverage,
       offsetX |-> offsetX,
       offsetY |-> offsetY]

\* buildFitTransform, middle part: the scale and its fallback
fitScaled(slot, src, scale0) ==
  IF ~IsFinite(scale0) \/ RLe(scale0, Zero)
    THEN fitPlaced(slot, src, One, prependWarning(src.warning, WarnScaleFallback))
    ELSE fitPlaced(slot, src, scale0, src.warning)

fitForSource(slot, src) ==
  fitScaled(slot, src, fitScaleCandidate(slot, src.sourceBounds.width, src.sourceBounds.height))

buildFitTransform(planSvg, slot, geometryBoundsIn, annotationBoundsIn, pageOrientation) ==
  fitForSource(slot, fitSource(getBoundsFromViewBox(planSvg),
                               normalizeBounds(geometryBoundsIn),
                               normalizeBounds(annotationBoundsIn)))

\* a transform function of an SVG transform list applied to a point
applyTransformFunction(f, p) ==
  IF f.fn = "translate" THEN [x |-> RAdd(p.x, f.x), y |-> RAdd(p.y, f.y)]
  ELSE IF f.fn = "scale" THEN [x |-> RMul(p.x, f.k), y |-> RMul(p.y, f.k)]
  ELSE p

\* the list applies its last function first
RECURSIVE applyTransformList(_, _)
applyTransformList(list, p) ==
  IF list = << >> THEN p
  ELSE applyTransformFunction(Head(list), applyTransformList(Tail(list), p))

\* the offset without the origin of the source bounds
projectXFromZero(fit, valueX) == RAdd(fit.offsetX, RMul(valueX, fit.scale))

projectX(fit, valueX) == RAdd(fit.offsetX, RMul(RSub(valueX, fit.sourceBounds.xMin), fit.scale))
projectY(fit, valueY) == RAdd(fit.offsetY, RMul(RSub(valueY, fit.sourceBounds.yMin), fit.scale))
projectPoint(x, y, fit) == [x |-> projectX(fit, x), y |-> projectY(fit, y)]

\* every element of the document in document order (querySelectorAll("*"))
RECURSIVE Descendants(_)
Descendants(nodes) ==
  IF nodes = << >> THEN << >>
  ELSE <<Head(nodes)>>
       \o (IF HasAttr(Head(nodes), "els") THEN Head(nodes).els ELSE << >>)
       \o Descendants(Tail(nodes))

FirstIndex(S) == CHOOSE i \in S : \A j \in S : i <= j

\* planSvg.querySelector("." + cls)
querySelectorClass(planSvg, cls) ==
  LET all == Descendants(planSvg.nodes)
      hits == {i \in 1..Len(all) : HasAttr(all[i], "cls") /\ all[i].cls = cls}
  IN  IF hits = {} THEN Null ELSE all[FirstIndex(hits)]

\* planSvg.querySelector('g[data-group="' + groupName + '"]')
querySelectorDataGroup(planSvg, groupName) ==
  LET all == Descendants(planSvg.nodes)
      hits == {i \in 1..Len(all) : all[i].tag = "g" /\ HasAttr(all[i], "dataGroup")
                                     /\ all[i].dataGroup = groupName}
  IN  IF hits = {} THEN Null ELSE all[FirstIndex(hits)]

IsGElement(e) == e # Null /\ e.tag = "g"

resolveGroup(planSvg, cls, groupName) ==
  IF IsGElement(querySelectorClass(planSvg, cls)) THEN querySelectorClass(planSvg, cls)
  ELSE IF IsGElement(querySelectorDataGroup(planSvg, groupName))
    THEN querySelectorDataGroup(planSvg, groupName)
  ELSE Null

tryReadNumberAttr(element, attrName) ==
  IF ~HasAttr(element, attrName) THEN Null
  ELSE IF IsFinite(element[attrName]) THEN element[attrName] ELSE Null

projectLengthAttribute(element, attrName, scale) ==
  IF ~HasAttr(element, attrName) THEN element
  ELSE IF ~IsFinite(element[attrName]) THEN element
  ELSE [element EXCEPT ![attrName] = RMul(@, scale)]

\* projects the attribute pair (xName, yName) when both are readable numbers
projectPair(element, xName, yName, fit) ==
  IF tryReadNumberAttr(element, xName) # Null /\ tryReadNumberAttr(element, yName) # Null
    THEN [element EXCEPT ![xName] = projectX(fit, element[xName]),
                         ![yName] = projectY(fit, element[yName])]
    ELSE element

projectPointAttributesIfPresent(element, fit) ==
  projectPair(projectPair(element, "x", "y", fit), "cx", "cy", fit)

projectLineElement(element, fit) ==
  IF \E a \in {"x1", "y1", "x2", "y2"} : tryReadNumberAttr(element, a) = Null THEN element
  ELSE projectPair(projectPair(element, "x1", "y1", fit), "x2", "y2", fit)

projectTextElement(element, fit) == projectPair(element, "x", "y", fit)

\* String(value) is in exponent notation: 0 < |value| < 1e-6 (values from
\* 1e21 on are beyond the integers of the model)
ExponentNotation(value) ==
  \/ RLt(Zero, value) /\ RLt(value, Frac(1, 1000000))
  \/ RLt(value, Zero) /\ RLt(Frac(-1, 1000000), value)

\* rotatePattern matches the function as a template string writes it: the
\* angle and the pivot are digits with at most one point, without exponent
rotatePatternMatches(f) ==
  /\ f.fn = "rotate"
  /\ ~ExponentNotation(f.angle)
  /\ HasAttr(f, "x") /\ HasAttr(f, "y") => ~ExponentNotation(f.x) /\ ~ExponentNotation(f.y)

\* one transform function of the list; only a rotate(...) that the pattern
\* matches is rewritten
projectRotate(f, fit) ==
  IF ~rotatePatternMatches(f) THEN f
  ELSE IF ~HasAttr(f, "x") \/ ~HasAttr(f, "y")
    THEN [fn |-> "rotate", angle |-> RAdd(f.angle, fit.rotationDeg)]
  ELSE [fn |-> "rotate", angle |-> RAdd(f.angle, fit.rotationDeg),
        x |-> projectX(fit, f.x), y |-> projectY(fit, f.y)]

projectTransformRotate(transform, fit) ==
  [i \in 1..Len(transform) |-> projectRotate(transform[i], fit)]

\* the stroke width is scaled like a length
projectLengthsAndStroke(element, scale) ==
  projectLengthAttribute(projectLengthAttribute(element, "width", scale), "strokeWidth", scale)

projectLengths(element, scale) ==
  projectLengthAttribute(projectLengthAttribute(projectLengthAttribute(
    projectLengthAttribute(projectLengthAttribute(element, "width", scale),
      "height", scale), "rx", scale), "ry", scale), "r", scale)

projectTransformAttr(element, fit) ==
  IF HasAttr(element, "transform") /\ element.transform # << >>
    THEN [element EXCEPT !.transform = projectTransformRotate(@, fit)]
    ELSE element

\* the body of the loop of projectAnnotationGroup for one element
projectElement(element, fit) ==
  projectTransformAttr(
    projectLengths(
      IF element.tag = "line" THEN projectLineElement(element, fit)
      ELSE IF element.tag = "text" THEN projectTextElement(element, fit)
      ELSE projectPointAttributesIfPresent(element, fit),
      fit.scale),
    fit)

removeAttribute(element, name) ==
  [a \in DOMAIN element \ {name} |-> element[a]]

\* the clone without its .layer-note elements, every element of it projected
RECURSIVE projectTree(_, _)
projectTree(element, fit) ==
  IF ~HasAttr(element, "els") THEN projectElement(element, fit)
  ELSE LET kept == SelectSeq(element.els,
                             LAMBDA e : ~(HasAttr(e, "cls") /\ e.cls = "layer-note"))
       IN  [projectElement([element EXCEPT !.els = << >>], fit)
              EXCEPT !.els = [i \in 1..Len(kept) |-> projectTree(kept[i], fit)]]

projectAnnotationGroup(sourceGroup, fit) ==
  removeAttribute(projectTree(sourceGroup, fit), "transform")

\* the legend starts at the top of the content
composeSlotsLegendOverContent(template) ==
  [header |-> [x |-> mmToPx(template.margins.leftMm), y |-> mmToPx(template.margins.topMm),
               width |-> mmToPx(template.page.widthMm), height |-> mmToPx(template.regions.headerMm)],
   content |-> [x |-> mmToPx(template.margins.leftMm),
                y |-> RAdd(mmToPx(template.margins.topMm), mmToPx(template.regions.headerMm)),
                width |-> mmToPx(template.page.widthMm), height |-> mmToPx(template.page.heightMm)],
   legend |-> [x |-> mmToPx(template.margins.leftMm),
               y |-> RAdd(mmToPx(template.margins.topMm), mmToPx(template.regions.headerMm)),
               width |-> mmToPx(template.page.widthMm), height |-> mmToPx(template.regions.legendMm)]]

\* the header, content and legend slots of composePlanDocument, in px
composeSlots(template) ==
  LET pageWidthPx == mmToPx(template.page.widthMm)
      pageHeightPx == mmToPx(template.page.heightMm)
      left == mmToPx(template.margins.leftMm)
      top == mmToPx(template.margins.topMm)
      right == RSub(pageWidthPx, mmToPx(template.margins.rightMm))
      innerWidth == RSub(right, left)
      headerHeight == mmToPx(template.regions.headerMm)
      legendHeight == mmToPx(template.regions.legendMm)
      contentTop == RAdd(top, headerHeight)
      contentHeight ==
        RMax(One, RSub(pageHeightPx,
                       RAdd(RAdd(top, mmToPx(template.margins.bottomMm)),
                            RAdd(headerHeight, legendHeight))))
  IN  [header |-> [x |-> left, y |-> top, width |-> innerWidth, height |-> headerHeight],
       content |-> [x |-> left, y |-> contentTop, width |-> innerWidth,
                    height |-> contentHeight],
       legend |-> [x |-> left, y |-> RAdd(contentTop, contentHeight), width |-> innerWidth,
                   height |-> legendHeight]]

drawSeparatorLine(x1, x2, y, className) ==
  createEl("line", [x1 |-> x1, y1 |-> y, x2 |-> x2, y2 |-> y, cls |-> className], "")

DefaultLegendLines ==
  << "Alle Masse in cm (ca.-Angaben).",
     "Export basiert auf dem aktuell berechneten Planstand.",
     "Fundamentempfehlung - Ausfuehrung bauseits." >>

\* cloneDefs / cloneInlineStyles: every element of the plan with the given tag
cloneByTag(planSvg, tag) ==
  SelectSeq(Descendants(planSvg.nodes), LAMBDA e : e.tag = tag)

\* the page furniture appended before the plan content
composeFrame(planSvg, template, slots, meta, notes) ==
  LET legendLines == IF Len(notes) > 0 THEN notes ELSE DefaultLegendLines
      shown == SubSeq(legendLines, 1, IF Len(legendLines) < 4 THEN Len(legendLines) ELSE 4)
  IN  <<createEl("style", << >>, "slot-divider title subtitle legend-text")>>
      \o cloneByTag(planSvg, "defs")
      \o cloneByTag(planSvg, "style")
      \o << drawSeparatorLine(slots.content.x, RAdd(slots.content.x, slots.content.width),
                              slots.content.y, "slot-divider"),
            drawSeparatorLine(slots.legend.x, RAdd(slots.legend.x, slots.legend.width),
                              slots.legend.y, "slot-divider"),
            createEl("text", [x |-> RAdd(slots.header.x, R(12)),
                              y |-> RAdd(slots.header.y, R(26)), cls |-> "title"],
                     IF meta.title # "" THEN meta.title ELSE "Fundamentplan"),
            createEl("text", [x |-> RAdd(slots.header.x, R(12)),
                              y |-> RAdd(slots.header.y, R(46)), cls |-> "subtitle"],
                     "Modell: " \o (IF meta.modelName # "" THEN meta.modelName ELSE "Unbenannt")
                       \o " | Schablone: " \o template.label) >>
      \o [i \in 1..Len(shown) |->
            createEl("text", [x |-> RAdd(slots.legend.x, R(12)),
                              y |-> RAdd(slots.legend.y, R(22 + (i - 1) * 16)),
                              cls |-> "legend-text"], shown[i])]

\* the geometry group, or the whole plan when there is none, under fit.transform
composeGeometry(planSvg, fit, geometrySource) ==
  IF geometrySource # Null
    THEN [tag |-> "g", transform |-> fit.transform, els |-> <<geometrySource>>]
    ELSE [tag |-> "g", transform |-> fit.transform, els |-> <<planSvg>>]

composeWarning(fit, geometrySource, annotationSource) ==
  LET w1 == IF geometrySource # Null THEN fit.warning
            ELSE prependWarning(fit.warning, WarnNoGeometryGroup)
  IN  IF annotationSource # Null THEN w1 ELSE prependWarning(w1, WarnNoAnnotationGroup)

composeResult(input, slots, fit, geometrySource, annotationSource) ==
  [threw |-> FALSE,
   svgElement |->
     [tag |-> "svg",
      width |-> mmToPx(input.template.page.widthMm),
      height |-> mmToPx(input.template.page.heightMm),
      viewBox |-> [x |-> Zero, y |-> Zero,
                   width |-> mmToPx(input.template.page.widthMm),
                   height |-> mmToPx(input.template.page.heightMm)],
      nodes |-> composeFrame(input.planSvg, input.template, slots, input.meta, input.notes)
                \o <<composeGeometry(input.planSvg, fit, geometrySource)>>
                \o (IF annotationSource # Null
                      THEN <<projectAnnotationGroup(annotationSource, fit)>> ELSE << >>)],
   templateId |-> input.template.id,
   pageMm |-> [width |-> input.template.page.widthMm, height |-> input.template.page.heightMm],
   slots |-> slots,
   fit |-> [sourceBounds |-> fit.sourceBounds,
            annotationBounds |-> fit.annotationBounds,
            targetSlot |-> fit.targetSlot,
            scale |-> fit.scale,
            warning |-> composeWarning(fit, geometrySource, annotationSource),
            coverage |-> fit.coverage]]

composeWithSlots(input, slots) ==
  composeResult(input, slots,
                buildFitTransform(input.planSvg, slots.content, input.planGeometryBounds,
                                  input.planAnnotationBounds, input.template.page.orientation),
                resolveGroup(input.planSvg, "geometry-group", "geometry"),
                resolveGroup(input.planSvg, "annotation-group", "annotation"))

composePlanDocument(input) ==
  IF input.planSvg = Null \/ input.planSvg.tag # "svg"
    THEN [threw |-> TRUE, error |-> "Planinhalt fehlt fuer das Layout."]
    ELSE composeWithSlots(input, composeSlots(input.template))

\* ------------------------------------------------------------------------
\* Inputs
\* ------------------------------------------------------------------------
MaxGaps == 3

GapInputs == {R(0), Frac(159, 2), R(-5)}
FootThicknessInputs == {R(0), R(8), R(400)}
FootWidthInputs == {R(0), R(200)}
FoundationWidthInputs == {R(0), R(40)}

SeqsUpTo(S, k) == UNION {[1..m -> S] : m \in 0..k}

Config(footWidth, footThickness, foundationWidth, footDistances) ==
  [barrelLength |-> R(220), barrelWidth |-> R(210), footWidth |-> footWidth,
   footThickness |-> footThickness, foundationWidth |-> foundationWidth,
   foundationDepth |-> R(80), footDistances |-> footDistances]

\* createEmptySauna().config
ReferenceConfig == Config(R(200), R(8), R(40), <<R(79), R(100), R(79)>>)

ExtraConfigs ==
  { ReferenceConfig,
    Config(R(200), R(8), R(40), <<R(79), R(100), R(79), R(100), R(79)>>),
    Config(R(0), R(0), R(0), <<R(0), R(0), R(0), R(0), R(0)>>),
    Config(R(2000), R(8), R(4), <<R(3000), R(79), R(-5), NaN, R(0)>>),
    Config(Frac(1, 2), Frac(79456, 1000), Frac(1, 4), <<Frac(79456, 1000)>>),
    Config(NaN, R(-3), R(-40), <<NaN, R(79)>>),
    Config(R(200), R(8), R(40), <<R(79)>>) }

RawConfigs ==
  { Config(w, t, f, ds) : w \in FootWidthInputs, t \in FootThicknessInputs,
                          f \in FoundationWidthInputs, ds \in SeqsUpTo(GapInputs, MaxGaps) }
  \cup ExtraConfigs

DefaultOptions == [title |-> "Fundamentplan Neues Modell", dimTextFontSizePx |-> Undefined]

Sauna(name, templateId, config) ==
  [name |-> name, exportSettings |-> [templateId |-> templateId, format |-> "pdf"],
   config |-> config]

RawSaunas == { Sauna("Neues Modell", "A4_PORTRAIT_STANDARD", c) : c \in RawConfigs }

\* the records entered in the form of the preview; the values keep every
\* fraction of the page fit within the 32-bit integers of the model checker
PreviewGapInputs == {R(0), R(79), R(-5)}
PreviewFootThicknessInputs == {R(0), R(8)}

PreviewConfigs ==
  { Config(w, t, f, ds) : w \in FootWidthInputs, t \in PreviewFootThicknessInputs,
                          f \in FoundationWidthInputs,
                          ds \in SeqsUpTo(PreviewGapInputs, MaxGaps) }
  \cup { ReferenceConfig,
         Config(NaN, R(-3), R(-40), <<NaN, R(79)>>),
         Config(R(200), R(8), R(40), <<Frac(79456, 1000)>>) }
  \cup { [ReferenceConfig EXCEPT !.barrelLength = bl, !.barrelWidth = bw] :
           bl \in {R(0), R(-1), NaN, R(220)}, bw \in {R(0), NaN, R(210)} }

PreviewSaunas ==
  { Sauna("Neues Modell", "A4_PORTRAIT_STANDARD", c) : c \in PreviewConfigs }
  \cup { Sauna(n, id, ReferenceConfig) :
           n \in {"Neues Modell", ""},
           id \in {"A4_LANDSCAPE_STANDARD", "A3_UNKNOWN", ""} }

PreviewNotes ==
  << "Alle Masse in cm (ca.-Angaben).",
     "Fuesse und Fundamentstreifen sind als Draufsicht dargestellt." >>

\* plan documents handed to composePlanDocument
Box(x, y, w, h) == [x |-> R(x), y |-> R(y), width |-> R(w), height |-> R(h)]

ShapeRect == createEl("rect", Box(0, 10, 200, 8) @@ [cls |-> "saunafuss"], "")
DimLine == createEl("line", [x1 |-> R(-20), y1 |-> R(10), x2 |-> R(-20), y2 |-> R(18)], "")
DimLabelBox == createEl("rect", Box(-30, 12, 12, 6) @@ [rx |-> R(2)], "")
DimLabel ==
  createEl("text", [x |-> R(-24), y |-> R(14),
                    transform |-> <<[fn |-> "rotate", angle |-> R(90), x |-> R(-24), y |-> R(14)]>>],
           "8")
NoteText == createEl("text", [x |-> R(0), y |-> R(300), cls |-> "layer-note"], "Alle Masse in cm")
BrokenLine == createEl("line", [x1 |-> R(0), y1 |-> NaN, x2 |-> R(5), y2 |-> R(5)], "")

GeometryGroup == [tag |-> "g", cls |-> "geometry-group", els |-> <<ShapeRect>>]
AnnotationGroup ==
  [tag |-> "g", cls |-> "annotation-group",
   transform |-> <<[fn |-> "translate", x |-> R(1), y |-> R(1)]>>,
   els |-> <<DimLine, DimLabelBox, DimLabel, NoteText, BrokenLine>>]
MeasureLayer == [tag |-> "g", cls |-> "layer-measures", els |-> <<DimLine, DimLabel>>]
FeetLayer == [tag |-> "g", cls |-> "layer-feet", els |-> <<ShapeRect>>]

Doc(viewBox, nodes) == [tag |-> "svg", viewBox |-> viewBox, nodes |-> nodes]

DocInputs ==
  { Doc(Box(-40, 0, 300, 400), <<createNode("defs"), createNode("style"), FeetLayer, MeasureLayer>>),
    Doc(Box(-40, 0, 300, 400), <<createNode("style"), GeometryGroup, AnnotationGroup>>),
    Doc(Box(-40, 0, 300, 400), <<GeometryGroup, MeasureLayer>>),
    Doc(Box(-40, 0, 300, 400), <<FeetLayer, AnnotationGroup>>),
    Doc(Box(-40, 0, 300, 400),
        << [tag |-> "g", cls |-> "layer-feet",
            els |-> <<createEl("rect", Box(0, 0, 1, 1) @@ [cls |-> "geometry-group"], "")>>],
           [tag |-> "g", dataGroup |-> "geometry", els |-> <<ShapeRect>>],
           [tag |-> "g", dataGroup |-> "annotation", els |-> <<DimLine, DimLabel>>] >>),
    Doc(Box(5, 5, 0, 400), <<GeometryGroup, AnnotationGroup>>),
    [tag |-> "svg", nodes |-> <<FeetLayer, MeasureLayer>>],
    Null }

Bounds(minX, minY, maxX, maxY) ==
  [xMin |-> minX, yMin |-> minY, minX |-> minX, minY |-> minY, maxX |-> maxX, maxY |-> maxY,
   width |-> RSub(maxX, minX), height |-> RSub(maxY, minY)]

GeometryBoundsInputs ==
  { Null,
    Bounds(R(0), R(4), R(200), R(280)),
    Bounds(R(0), R(0), Frac(1, 2), R(2000)),
    [minX |-> R(0), minY |-> R(4), width |-> R(200), height |-> R(276)],
    [xMin |-> R(0), yMin |-> R(4), width |-> NaN, height |-> R(276)],
    [xMin |-> PosInf, yMin |-> R(4), width |-> R(200), height |-> R(276)],
    Bounds(R(0), R(4), R(0), R(280)),
    Bounds(R(0), R(4), R(200), R(-10)),
    [xMin |-> R(0), yMin |-> R(4), maxX |-> R(-5), maxY |-> R(280),
     width |-> R(200), height |-> R(276)] }

AnnotationBoundsInputs ==
  { Null,
    Bounds(R(-40), R(0), R(260), R(400)),
    Bounds(R(-40), R(0), R(-40), R(400)) }

Template(id, widthMm, heightMm, marginMm, sideMarginMm, headerMm, legendMm) ==
  [id |-> id, label |-> id,
   page |-> [widthMm |-> R(widthMm), heightMm |-> R(heightMm), orientation |-> "portrait"],
   margins |-> [topMm |-> R(marginMm), rightMm |-> R(sideMarginMm), bottomMm |-> R(marginMm),
                leftMm |-> R(sideMarginMm)],
   regions |-> [headerMm |-> R(headerMm), legendMm |-> R(legendMm), footerMm |-> R(0),
                gapMm |-> R(4)]]

\* templates a caller builds: a small page, bands higher than the page, and
\* side margins wider than the page
CustomTemplates ==
  { Template("CUSTOM_SMALL", 127, 127, 10, 10, 20, 20),
    Template("CUSTOM_BANDS", 127, 50, 10, 10, 30, 30),
    Template("CUSTOM_MARGINS", 127, 127, 10, 70, 20, 20) }

TemplateInputs ==
  { getTemplateById(templates, JsString(id)) :
      id \in {"A4_PORTRAIT_STANDARD", "A4_LANDSCAPE_STANDARD"} } \cup CustomTemplates

ComposeInputs ==
  { [template |-> getTemplateById(templates, JsString(id)), planSvg |-> doc, planGeometryBounds |-> g,
     planAnnotationBounds |-> a, meta |-> [title |-> "Fundamentplan", modelName |-> "Neues Modell"],
     notes |-> PreviewNotes] :
      id \in {"A4_PORTRAIT_STANDARD", "A4_LANDSCAPE_STANDARD"}, doc \in DocInputs,
      g \in GeometryBoundsInputs, a \in AnnotationBoundsInputs }

\* source bounds that are wide, tall, square, missing and without area
SlotGeometryBoundsInputs ==
  { Null,
    Bounds(R(0), R(4), R(200), R(280)),
    Bounds(R(-50), R(0), R(950), R(10)),
    Bounds(R(0), R(-10), R(10), R(990)),
    Bounds(R(10), R(10), R(137), R(137)),
    Bounds(R(0), R(4), R(0), R(280)) }

\* an annotation group with styled, nested, incomplete and rotated elements
StyledAnnotationGroup ==
  [tag |-> "g", cls |-> "annotation-group",
   transform |-> <<[fn |-> "translate", x |-> R(1), y |-> R(1)]>>,
   els |-> << createEl("line", [x1 |-> R(-20), y1 |-> R(10), x2 |-> R(-20), y2 |-> R(18),
                                strokeWidth |-> Frac(3, 2), stroke |-> "#0f172a"], ""),
              createEl("rect", Box(-30, 12, 12, 6) @@ [rx |-> R(2), ry |-> R(3), fill |-> "white"], ""),
              createEl("circle", [cx |-> R(5), cy |-> R(6), r |-> R(2), strokeWidth |-> R(1)], ""),
              createEl("text", [x |-> R(-24), y |-> R(14), fontSize |-> R(12),
                                transform |-> <<[fn |-> "rotate", angle |-> R(-90),
                                                 x |-> R(-24), y |-> R(14)]>>], "8"),
              createEl("text", [x |-> R(5), fontSize |-> R(12)], "cm"),
              createEl("polygon", [points |-> <<R(0), R(0), R(3), R(6), R(-3), R(6)>>,
                                   fill |-> "#0f172a"], ""),
              [tag |-> "g", cls |-> "layer-measures",
               transform |-> <<[fn |-> "translate", x |-> R(2), y |-> R(0)],
                               [fn |-> "rotate", angle |-> R(45)]>>,
               els |-> <<createEl("line", [x1 |-> R(0), y1 |-> R(0), x2 |-> R(200), y2 |-> R(0),
                                           strokeWidth |-> R(2)], ""),
                         NoteText>>],
              NoteText,
              createEl("line", [x1 |-> R(0), y1 |-> NaN, x2 |-> R(5), y2 |-> R(5),
                                width |-> R(7)], "") >>]

\* a label that is rotated about its anchor, once at an ordinary place and
\* once 2^-20 right of the origin, which String writes as 9.5367431640625e-7
RotatedLabel(x, y, label) ==
  createEl("text", [x |-> x, y |-> y, fontSize |-> R(12),
                    transform |-> <<[fn |-> "rotate", angle |-> R(90), x |-> x, y |-> y]>>],
           label)

RotatedLabelsDoc ==
  Doc(Box(0, 0, 1000, 200),
      << GeometryGroup,
         [tag |-> "g", cls |-> "annotation-group",
          els |-> << RotatedLabel(R(-24), R(14), "8"),
                     RotatedLabel(Frac(1, 1048576), R(14), "79") >>] >>)

\* a page and source bounds for which the fit has scale 1/2
RotatedLabelsInput ==
  [template |-> Template("CUSTOM_FULL", 127, 127, 0, 0, 0, 0), planSvg |-> RotatedLabelsDoc,
   planGeometryBounds |-> Bounds(R(0), R(0), Frac(4704, 5), R(200)),
   planAnnotationBounds |-> Null,
   meta |-> [title |-> "Fundamentplan", modelName |-> "Neues Modell"], notes |-> PreviewNotes]

SlotComposeInputs ==
  { [template |-> t, planSvg |-> doc, planGeometryBounds |-> g,
     planAnnotationBounds |-> a, meta |-> [title |-> "Fundamentplan", modelName |-> "Neues Modell"],
     notes |-> PreviewNotes] :
      t \in TemplateInputs,
      doc \in { Doc(Box(-40, 0, 300, 400), <<createNode("style"), GeometryGroup, AnnotationGroup>>),
                Doc(Box(-40, 0, 300, 400), <<GeometryGroup, StyledAnnotationGroup>>),
                Doc(Box(5, 5, 0, 400), <<GeometryGroup, AnnotationGroup>>) },
      g \in SlotGeometryBoundsInputs,
      a \in { Null, Bounds(R(-60), R(0), R(260), R(300)) } } \cup { RotatedLabelsInput }

\* ------------------------------------------------------------------------
\* Export (services/planExporter.js, services/pdfExporter.js)
\* File names are sequences of characters, so that the replace of the
\* sanitisers acts on each character.
\* ------------------------------------------------------------------------
MM_PER_PX_AT_96_DPI == Frac(254, 960)
PDF_MARGIN == R(6)

FileNameChars ==
  {"a","b","c","d","e","f","g","h","i","j","k","l","m","n","o","p","q","r","s","t",
   "u","v","w","x","y","z","A","B","C","D","E","F","G","H","I","J","K","L","M","N",
   "O","P","Q","R","S","T","U","V","W","X","Y","Z","0","1","2","3","4","5","6","7",
   "8","9",".","_","-"}

\* name.replace(/[^a-zA-Z0-9._-]/g, "_")
replaceUnsafe(name) ==
  [i \in 1..Len(name) |-> IF name[i] \in FileNameChars THEN name[i] ELSE "_"]

FUNDAMENTPLAN == <<"f","u","n","d","a","m","e","n","t","p","l","a","n">>
DOT_SVG == <<".","s","v","g">>
DOT_PDF == <<".","p","d","f">>

sanitizeBaseName(name) ==
  IF replaceUnsafe(name) = << >> THEN FUNDAMENTPLAN ELSE replaceUnsafe(name)

endsWith(name, suffix) ==
  /\ Len(name) >= Len(suffix)
  /\ SubSeq(name, Len(name) - Len(suffix) + 1, Len(name)) = suffix

sanitizeFileName(name) ==
  IF endsWith(replaceUnsafe(name), DOT_PDF) THEN replaceUnsafe(name)
  ELSE replaceUnsafe(name) \o DOT_PDF

\* value instanceof SVGSVGElement
IsSvgRoot(value) == HasAttr(value, "tag") /\ value.tag = "svg"

\* parseFloat(el.getAttribute(name)) || fallback
parseFloatAttrOr(el, name, fallback) ==
  IF HasAttr(el, name) /\ IsFinite(el[name]) /\ el[name] # Zero THEN el[name] ELSE fallback

viewBoxWidthOr(el, fallback) ==
  IF JsLt(Zero, viewBoxBaseVal(el).width) THEN viewBoxBaseVal(el).width
  ELSE parseFloatAttrOr(el, "width", fallback)

viewBoxHeightOr(el, fallback) ==
  IF JsLt(Zero, viewBoxBaseVal(el).height) THEN viewBoxBaseVal(el).height
  ELSE parseFloatAttrOr(el, "height", fallback)

inferPageMm(svgElement) ==
  [width |-> RMul(viewBoxWidthOr(svgElement, R(1000)), MM_PER_PX_AT_96_DPI),
   height |-> RMul(viewBoxHeightOr(svgElement, R(1400)), MM_PER_PX_AT_96_DPI)]

pdfPageMm(svgElement, meta) ==
  IF /\ HasAttr(meta, "pageMm")
     /\ JsLt(Zero, ToNumber(Attr(meta.pageMm, "width")))
     /\ JsLt(Zero, ToNumber(Attr(meta.pageMm, "height")))
  THEN meta.pageMm
  ELSE inferPageMm(svgElement)

\* new jsPDF({ orientation, unit: "mm", format: [width, height] })
newJsPDF(pageMm) ==
  [orientation |-> IF RLt(pageMm.height, pageMm.width) THEN "landscape" ELSE "portrait",
   pageWidth |-> pageMm.width, pageHeight |-> pageMm.height]

\* where the drawing goes on the page: scale, target size and offsets
pdfPlacement(doc, cloned) ==
  LET sourceWidthMm == RMul(viewBoxWidthOr(cloned, R(1000)), MM_PER_PX_AT_96_DPI)
      sourceHeightMm == RMul(viewBoxHeightOr(cloned, R(1000)), MM_PER_PX_AT_96_DPI)
      drawWidth == RSub(doc.pageWidth, RMul(PDF_MARGIN, R(2)))
      drawHeight == RSub(doc.pageHeight, RMul(PDF_MARGIN, R(2)))
      scale == RMin(RDiv(drawWidth, sourceWidthMm), RDiv(drawHeight, sourceHeightMm))
  IN  [scale |-> scale,
       x |-> RHalf(RSub(doc.pageWidth, RMul(sourceWidthMm, scale))),
       y |-> RHalf(RSub(doc.pageHeight, RMul(sourceHeightMm, scale))),
       width |-> RMul(sourceWidthMm, scale),
       height |-> RMul(sourceHeightMm, scale)]

ErrDocSvgRejected == "doc.svg rejected"
ErrNoRenderer == "Weder jsPDF.svg noch svg2pdf ist verfuegbar."
ErrNoJsPdf == "jsPDF ist nicht geladen."
ErrNoSvgForPdf == "Kein gueltiges SVG fuer den PDF-Export vorhanden."
ErrNoDocument == "Es liegt kein gueltiges Layout-Dokument fuer den Export vor."

Threw(message, effects) == [threw |-> TRUE, error |-> message, effects |-> effects]
Returned(effects) == [threw |-> FALSE, error |-> "", effects |-> effects]

\* the page is saved although no renderer drew on it
pdfDrawAndSaveAlways(env, doc, placement, safeName) ==
  Returned(<<[op |-> "doc.save", fileName |-> safeName, orientation |-> doc.orientation]>>)

\* doc.svg or window.svg2pdf draws the clone, then doc.save(safeName)
pdfDrawAndSave(env, doc, placement, safeName) ==
  IF env.docSvg = "function"
  THEN IF env.docSvgRejects
       THEN Threw(ErrDocSvgRejected, <<[op |-> "doc.svg", at |-> placement]>>)
       ELSE Returned(<<[op |-> "doc.svg", at |-> placement],
                       [op |-> "doc.save", fileName |-> safeName, orientation |-> doc.orientation]>>)
  ELSE IF env.svg2pdf = "function"
  THEN Returned(<<[op |-> "svg2pdf", at |-> placement],
                  [op |-> "doc.save", fileName |-> safeName, orientation |-> doc.orientation]>>)
  ELSE Threw(ErrNoRenderer, << >>)

exportSvgToPdf(svgElement, meta, env) ==
  IF ~IsSvgRoot(svgElement) THEN Threw(ErrNoSvgForPdf, << >>)
  ELSE IF env.jspdf # "loaded" THEN Threw(ErrNoJsPdf, << >>)
  ELSE pdfDrawAndSave(env, newJsPDF(pdfPageMm(svgElement, meta)),
                      pdfPlacement(newJsPDF(pdfPageMm(svgElement, meta)), svgElement),
                      sanitizeFileName(IF HasAttr(meta, "fileName") /\ meta.fileName # << >>
                                       THEN meta.fileName ELSE FUNDAMENTPLAN \o DOT_PDF))

\* serialises the document and clicks a download link
exportAsSvg(svgElement, fileName) ==
  Returned(<<[op |-> "link.click", download |-> fileName]>>)

exportPdfMeta(composedDocument, normalizedBase) ==
  IF HasAttr(composedDocument, "pageMm")
  THEN [fileName |-> normalizedBase \o DOT_PDF, pageMm |-> composedDocument.pageMm]
  ELSE [fileName |-> normalizedBase \o DOT_PDF]

exportPlan(input, env) ==
  IF input.composedDocument = Null \/ ~IsSvgRoot(Attr(input.composedDocument, "svgElement"))
  THEN Threw(ErrNoDocument, << >>)
  ELSE IF input.format = "svg"
  THEN exportAsSvg(input.composedDocument.svgElement,
                   sanitizeBaseName(IF input.fileNameBase = << >> THEN FUNDAMENTPLAN
                                    ELSE input.fileNameBase) \o DOT_SVG)
  ELSE exportSvgToPdf(input.composedDocument.svgElement,
                      exportPdfMeta(input.composedDocument,
                                    sanitizeBaseName(IF input.fileNameBase = << >> THEN FUNDAMENTPLAN
                                                     ELSE input.fileNameBase)),
                      env)

\* what the browser offers: window.jspdf, doc.svg, window.svg2pdf
Environments ==
  [jspdf : {"absent", "empty", "loaded"}, docSvg : {"function", "absent"},
   docSvgRejects : BOOLEAN, svg2pdf : {"function", "absent"}]

PageSvg(w, h) == [tag |-> "svg", viewBox |-> Box(0, 0, w, h), nodes |-> <<GeometryGroup>>]

ComposedDocumentInputs ==
  { Null,
    [pageMm |-> [width |-> R(210), height |-> R(297)]],
    [svgElement |-> Null],
    [svgElement |-> GeometryGroup, pageMm |-> [width |-> R(210), height |-> R(297)]],
    [svgElement |-> PageSvg(480, 960), pageMm |-> [width |-> R(210), height |-> R(297)]],
    [svgElement |-> PageSvg(960, 480), pageMm |-> [width |-> R(0), height |-> R(0)]],
    [svgElement |-> [tag |-> "svg", nodes |-> <<GeometryGroup>>, width |-> R(960)]] }

FileNameBaseInputs ==
  { << >>, <<"p","l","a","n">>, <<"F","a","s","s"," ","2",".","p","d","f">>, <<"/">> }

ExportInputs ==
  [format : {"pdf", "svg", "png"}, composedDocument : ComposedDocumentInputs,
   fileNameBase : FileNameBaseInputs]

\* ------------------------------------------------------------------------
\* Configuration store: the in-memory store and the store behind the HTTP API
\* (services/saunaStore.js, scripts/dev-server.js, server/database.js).
\* Ids are sequences of characters, so that trim and encodeURIComponent act
\* on each character. The table sauna_images stays empty.
\* ------------------------------------------------------------------------
RECURSIVE trimStart(_)
trimStart(s) == IF s # << >> /\ Head(s) = " " THEN trimStart(Tail(s)) ELSE s

RECURSIVE trimEnd(_)
trimEnd(s) ==
  IF s # << >> /\ s[Len(s)] = " " THEN trimEnd(SubSeq(s, 1, Len(s) - 1)) ELSE s

trim(s) == trimEnd(trimStart(s))

\* createSaunaId(): `sauna-${Date.now()}-${random}`
createSaunaId == <<"s","a","u","n","a","-","1","-","1">>

sanitizeId(value) == IF trim(value) # << >> THEN trim(value) ELSE createSaunaId

sanitizeRevision(value) ==
  IF ~IsFinite(value) \/ RLt(value, One) THEN One ELSE RFloor(value)

\* an image survives if its data URL names an image
sanitizeImage(raw) ==
  [id |-> raw.id, dataUrl |-> raw.dataUrl, mimeType |-> "image/png",
   bytes |-> RMax(Zero, raw.bytes), createdAt |-> raw.createdAt]

RECURSIVE sanitizeImages(_)
sanitizeImages(images) ==
  IF images = << >> THEN << >>
  ELSE IF Head(images).dataUrl = "data:image/png;base64,AAAA"
  THEN <<sanitizeImage(Head(images))>> \o sanitizeImages(Tail(images))
  ELSE sanitizeImages(Tail(images))

\* sanitizeSauna with the identity, revision, dates and images of the record
sanitizeStored(raw) ==
  [id |-> sanitizeId(raw.id),
   revision |-> sanitizeRevision(raw.revision),
   createdAt |-> raw.createdAt,
   updatedAt |-> raw.updatedAt,
   images |-> sanitizeImages(IF HasAttr(raw, "images") THEN raw.images ELSE << >>)]
  @@ sanitizeSauna(raw)

\* --- in-memory store ---
RECURSIVE MapSanitizeStored(_)
MapSanitizeStored(list) ==
  IF list = << >> THEN << >>
  ELSE <<sanitizeStored(Head(list))>> \o MapSanitizeStored(Tail(list))

memoryGetAll(list) == MapSanitizeStored(list)

findIndex(list, id) ==
  IF \E i \in 1..Len(list) : list[i].id = id
  THEN CHOOSE i \in 1..Len(list) :
         list[i].id = id /\ \A j \in 1..(i - 1) : list[j].id # id
  ELSE -1

memoryGetById(list, id) ==
  IF findIndex(list, id) >= 0 THEN sanitizeStored(list[findIndex(list, id)]) ELSE Null

memoryUpsert(list, sauna) ==
  IF findIndex(list, sanitizeStored(sauna).id) >= 0
  THEN [list EXCEPT ![findIndex(list, sanitizeStored(sauna).id)] = sanitizeStored(sauna)]
  ELSE Append(list, sanitizeStored(sauna))

memoryRemove(list, id) == SelectSeq(list, LAMBDA item : item.id # id)

\* --- database ---
\* value || fallback for a number
\* loadInitialData: the fetched array sanitised item by item, or no record at
\* all when the request fails or the body is not an array
loadInitialData(response) ==
  IF response.ok /\ response.isArray THEN MapSanitizeStored(response.items) ELSE << >>

\* importFromJsonFile: throws and keeps the store for a missing file, invalid
\* JSON or a value that is not an array; otherwise replaces the whole array
importFromJsonFile(list, file) ==
  IF file = Null \/ ~file.isJson \/ ~file.isArray
    THEN [threw |-> TRUE, saunas |-> list]
    ELSE [threw |-> FALSE, saunas |-> MapSanitizeStored(file.items)]

NumberOr(value, fallback) ==
  IF value = Undefined \/ IsNaN(value) \/ value = Zero THEN fallback ELSE value

rowToSauna(row) ==
  [id |-> row.id, name |-> row.name, revision |-> row.revision,
   createdAt |-> row.created_at, updatedAt |-> row.updated_at,
   config |-> [barrelLength |-> row.barrel_length, barrelWidth |-> row.barrel_width,
               barrelHeight |-> row.barrel_height,
               barrelLengthWithRoof |-> row.barrel_length_with_roof,
               footWidth |-> row.foot_width, footThickness |-> row.foot_thickness,
               foundationWidth |-> row.foundation_width,
               foundationDepth |-> row.foundation_depth,
               footDistances |-> row.foot_distances],
   exportSettings |-> [templateId |-> row.export_template_id, format |-> row.export_format,
                       dimTextFontSizePx |-> row.export_dim_font_size_px],
   thumbnailDataUrl |-> Null]

RECURSIVE SetToSeq(_)
SetToSeq(S) ==
  IF S = {} THEN << >> ELSE LET x == CHOOSE x \in S : TRUE IN <<x>> \o SetToSeq(S \ {x})

\* SELECT * FROM saunas: the rows in some order
getAllSaunas(rows) == SetToSeq({rowToSauna(rows[id]) : id \in DOMAIN rows})

getSaunaById(rows, id) == IF id \in DOMAIN rows THEN rowToSauna(rows[id]) ELSE Null

upsertParams(sauna) ==
  [id |-> sauna.id,
   name |-> IF sauna.name # "" THEN sauna.name ELSE "Unbenannt",
   revision |-> NumberOr(Attr(sauna, "revision"), One),
   created_at |-> sauna.createdAt,
   updated_at |-> sauna.updatedAt,
   barrel_length |-> NumberOr(Attr(sauna.config, "barrelLength"), Zero),
   barrel_width |-> NumberOr(Attr(sauna.config, "barrelWidth"), Zero),
   barrel_height |-> NumberOr(Attr(sauna.config, "barrelHeight"), Zero),
   barrel_length_with_roof |-> NumberOr(Attr(sauna.config, "barrelLengthWithRoof"), Zero),
   foot_width |-> NumberOr(Attr(sauna.config, "footWidth"), Zero),
   foot_thickness |-> NumberOr(Attr(sauna.config, "footThickness"), Zero),
   foundation_width |-> NumberOr(Attr(sauna.config, "foundationWidth"), Zero),
   foundation_depth |-> NumberOr(Attr(sauna.config, "foundationDepth"), Zero),
   foot_distances |-> sauna.config.footDistances,
   export_template_id |-> sauna.exportSettings.templateId,
   export_format |-> sauna.exportSettings.format,
   export_dim_font_size_px |-> NumberOr(Attr(sauna.exportSettings, "dimTextFontSizePx"), R(12))]

\* INSERT ... ON CONFLICT(id) DO UPDATE SET every column but id and created_at
upsertSauna(rows, sauna) ==
  IF sauna.id \in DOMAIN rows
  THEN [rows EXCEPT ![sauna.id] =
          [upsertParams(sauna) EXCEPT !.created_at = rows[sauna.id].created_at]]
  ELSE (sauna.id :> upsertParams(sauna)) @@ rows

deleteSauna(rows, id) == [i \in DOMAIN rows \ {id} |-> rows[i]]

\* --- HTTP API ---
UnreservedChars == FileNameChars \cup {"!", "~", "*", "'", "(", ")"}

PercentCode ==
  (" " :> <<"%","2","0">>) @@ ("/" :> <<"%","2","F">>) @@ ("%" :> <<"%","2","5">>)

RECURSIVE encodeURIComponent(_)
encodeURIComponent(s) ==
  IF s = << >> THEN << >>
  ELSE (IF Head(s) \in UnreservedChars THEN <<Head(s)>> ELSE PercentCode[Head(s)])
       \o encodeURIComponent(Tail(s))

Response(status, data, rows) == [status |-> status, data |-> data, rows |-> rows]

\* the routes of handleApi below /api/saunas; segment is the path segment
\* after "saunas", taken from url.pathname as it stands, or << >> if none
handleApi(rows, method, segment, body) ==
  IF segment = << >> /\ method = "GET" THEN Response(200, getAllSaunas(rows), rows)
  ELSE IF segment # << >> /\ method = "GET"
  THEN IF getSaunaById(rows, segment) = Null
       THEN Response(404, [error |-> "Nicht gefunden"], rows)
       ELSE Response(200, getSaunaById(rows, segment) @@ [images |-> << >>], rows)
  ELSE IF segment # << >> /\ method = "PUT"
  THEN Response(200,
                getSaunaById(upsertSauna(rows, [body EXCEPT !.id = segment]), segment)
                  @@ [images |-> << >>],
                upsertSauna(rows, [body EXCEPT !.id = segment]))
  ELSE IF segment # << >> /\ method = "DELETE"
  THEN Response(204, Null, deleteSauna(rows, segment))
  ELSE Response(404, [error |-> "Unbekannter API-Endpunkt"], rows)

\* --- client of the API (services/saunaStore.js) ---
apiGetAll(rows) == MapSanitizeStored(handleApi(rows, "GET", << >>, Null).data)

apiGetById(rows, id) ==
  IF handleApi(rows, "GET", encodeURIComponent(id), Null).status = 200
  THEN sanitizeStored(handleApi(rows, "GET", encodeURIComponent(id), Null).data)
  ELSE Null

apiUpsert(rows, sauna) ==
  handleApi(rows, "PUT", encodeURIComponent(sanitizeStored(sauna).id), sanitizeStored(sauna)).rows

apiRemove(rows, id) == handleApi(rows, "DELETE", encodeURIComponent(id), Null).rows

\* --- the store the application talks to ---
storeGetAll(kind, list, rows) ==
  IF kind = "memory" THEN memoryGetAll(list) ELSE apiGetAll(rows)

storeGetById(kind, list, rows, id) ==
  IF kind = "memory" THEN memoryGetById(list, id) ELSE apiGetById(rows, id)

Image(id) ==
  [id |-> id, dataUrl |-> "data:image/png;base64,AAAA", bytes |-> R(3),
   createdAt |-> "2024-01-01T00:00:00.000Z"]

StoreIds == { <<"a">>, <<"b"," ","c">> }
RawIds == StoreIds \cup { <<" ","a">> }
CreatedAtInputs == { "2024-01-01T00:00:00.000Z", "2024-02-02T00:00:00.000Z" }
ImagesInputs == { << >>, <<Image("img-1")>> }

StoredSauna(id, createdAt, images, footThickness) ==
  [id |-> id, revision |-> One, createdAt |-> createdAt,
   updatedAt |-> "2024-03-03T00:00:00.000Z", images |-> images]
  @@ Sauna("Neues Modell", "A4_PORTRAIT_STANDARD",
           Config(R(200), footThickness, R(40), <<R(79)>>))

StoreInputs ==
  { StoredSauna(id, c, im, t) :
      id \in RawIds, c \in CreatedAtInputs, im \in ImagesInputs, t \in {R(8), Frac(12345, 1000)} }

\* the records of a JSON file: one per raw id
FileRecords ==
  { StoredSauna(id, "2024-01-01T00:00:00.000Z", << >>, R(8)) : id \in RawIds }

MaxFileRecords == 2

JsonArray(items) == [isJson |-> TRUE, isArray |-> TRUE, items |-> items]

\* files chosen for the import: arrays of records, a JSON object, broken
\* JSON, and no file
ImportFiles ==
  { JsonArray(items) : items \in SeqsUpTo(FileRecords, MaxFileRecords) }
  \cup { [isJson |-> TRUE, isArray |-> FALSE, items |-> << >>],
         [isJson |-> FALSE, isArray |-> FALSE, items |-> << >>],
         Null }

\* responses to the request for data/saunas.json
InitialResponses ==
  { [ok |-> TRUE, isArray |-> TRUE, items |-> items] :
      items \in SeqsUpTo(FileRecords, MaxFileRecords) }
  \cup { [ok |-> FALSE, isArray |-> FALSE, items |-> << >>],
         [ok |-> TRUE, isArray |-> FALSE, items |-> << >>] }

\* ------------------------------------------------------------------------
\* Page controller (app.js): form, debounced preview and export button
\* ------------------------------------------------------------------------
MaxDistances == 2

FormNames == {"Neues Modell", "Fass 2"}
FormFormats == {"pdf", "svg"}

\* the fields of the form that readFormData reads
FormData(name, format, footDistances) ==
  [name |-> name, format |-> format, footDistances |-> footDistances]

\* writeFormData(createEmptySauna()) with one distance row
EmptyForm == FormData("Neues Modell", "pdf", <<R(79)>>)

\* renderPreview: readFormData, generatePlanSvg and composePlanDocument; the
\* composed document is a function of the name and the config read from the
\* form and is represented by them
renderPreview(form) == [modelName |-> form.name, footDistances |-> form.footDistances]

\* the argument of exportPlan built by the export button handler
exportArgument(form, composedDocument) ==
  [format |-> form.format,
   composedDocument |-> composedDocument,
   fileNameBase |-> "fundamentplan_" \o form.name]

\* the page once bindEvents has run, before init calls renderPreview
NoUi ==
  [form |-> EmptyForm, timer |-> FALSE, composedDocument |-> Null, exportCall |-> Null,
   initialised |-> FALSE]

\* ------------------------------------------------------------------------
\* Page controller (app.js): saving the form
\* ------------------------------------------------------------------------
MaxRevision == 3

Handlers == {1, 2}

\* new Date().toISOString() at the time of a save
Now == "2024-04-04T00:00:00.000Z"

\* the record the database is seeded with
SeedSauna == sanitizeStored(StoredSauna(<<"a">>, "2024-01-01T00:00:00.000Z", << >>, R(8)))

\* writeFormData: the identity of the record kept in form.dataset
formDataset(sauna) ==
  [saunaId |-> sauna.id, createdAt |-> sauna.createdAt, revision |-> sauna.revision]

\* readFormData: the record built from form.dataset and the fields
readFormData(dataset) ==
  sanitizeStored(
    [id |-> dataset.saunaId, revision |-> NumberOr(dataset.revision, One),
     createdAt |-> dataset.createdAt, updatedAt |-> Now, images |-> << >>]
    @@ Sauna("Neues Modell", "A4_PORTRAIT_STANDARD", Config(R(200), R(8), R(40), <<R(79)>>)))

\* nextRevision: the sanitised record with revision + 1 and a new updatedAt
nextRevision(sauna) ==
  [sanitizeStored(sauna) EXCEPT !.revision = RAdd(@, One), !.updatedAt = Now]

\* the submit handler between its first and second await: prepared and finalSauna
submitFinalSauna(previous, raw) ==
  IF previous = Null THEN sanitizeStored(raw)
  ELSE nextRevision(sanitizeStored(
         [raw EXCEPT !.createdAt = previous.createdAt,
                     !.revision = NumberOr(previous.revision, raw.revision)]))

IdleHandler == [pc |-> "idle", previous |-> Null, finalSauna |-> Null]

NoSubmits ==
  [dataset |-> formDataset(SeedSauna),
   handlers |-> [h \in Handlers |-> IdleHandler],
   lastSave |-> Null]

\* ------------------------------------------------------------------------
\* State
\* ------------------------------------------------------------------------
VARIABLES
  rawSauna,     \* the record as entered, before sanitising
  feet,         \* result of the last computeFootCenters calls
  plan,         \* argument and result of the last generatePlanSvg call
  validation,   \* validateSauna warnings of the last preview
  layoutInput,  \* argument of the last composePlanDocument call
  composed,     \* result of the last composePlanDocument call
  registry,     \* the templates array of the template registry
  lookup,       \* the template a caller last got from the registry
  exported,    \* argument, environment and outcome of the last exportPlan call
  storeKind,   \* which configuration store the application talks to
  saunas,      \* the array of the in-memory store
  db,          \* the table saunas of the database, by id
  lastPut,     \* history: the sanitized record last put for an id, Null once removed
  ui,          \* the form, the debounce timer, the composed document and the last export of the page
  submits      \* form dataset, position of each submit handler and the last save

vars == <<rawSauna, feet, plan, validation, layoutInput, composed, registry, lookup, exported, storeKind, saunas, db, lastPut, ui, submits>>

NoLookup == [done |-> FALSE]

NoExport == [done |-> FALSE]

NoRows == [id \in {} |-> Null]
NoPuts == [id \in StoreIds |-> Null]

NoFeet == [done |-> FALSE]
NoPlan == [done |-> FALSE]
NoInput == [given |-> FALSE]
NoComposed == [done |-> FALSE]

InitPlan ==
  /\ rawSauna \in RawSaunas
  /\ feet = NoFeet
  /\ plan = NoPlan
  /\ validation = << >>
  /\ layoutInput = NoInput
  /\ composed = NoComposed
  /\ registry = templates
  /\ lookup = NoLookup
  /\ exported = NoExport
  /\ storeKind = "memory"
  /\ saunas = << >>
  /\ db = NoRows
  /\ lastPut = NoPuts
  /\ ui = NoUi
  /\ submits = NoSubmits

\* computeFootCenters / computeDerivedDimensions called on the raw config
ComputeFeet ==
  /\ feet' = [done |-> TRUE,
              centers |-> computeFootCenters(rawSauna.config),
              centersV1 |-> computeFootCentersV1(rawSauna.config),
              derivedV1 |-> computeDerivedDimensionsV1(rawSauna.config)]
  /\ UNCHANGED <<rawSauna, plan, validation, layoutInput, composed, registry, lookup, exported, storeKind, saunas, db, lastPut, ui, submits>>

\* generatePlanSvg called on the raw config
GeneratePlan ==
  /\ plan' = [done |-> TRUE, via |-> "direct", config |-> rawSauna.config,
              result |-> generatePlanSvg(rawSauna.config, DefaultOptions)]
  /\ validation' = << >>
  /\ layoutInput' = NoInput
  /\ composed' = NoComposed
  /\ UNCHANGED <<rawSauna, feet, registry, lookup, exported, storeKind, saunas, db, lastPut, ui, submits>>

NextPlan == ComputeFeet \/ GeneratePlan

SpecPlan == InitPlan /\ [][NextPlan]_vars

\* the composePlanDocument argument built by renderPreview
previewInput(sauna, planResultIn) ==
  [template |-> getTemplateById(registry, JsString(sauna.exportSettings.templateId)),
   planSvg |-> planResultIn.svgElement,
   planGeometryBounds |-> planResultIn.geometryBounds,
   planAnnotationBounds |-> planResultIn.annotationBounds,
   meta |-> [title |-> "Fundamentplan", modelName |-> sauna.name],
   notes |-> PreviewNotes]

\* renderPreview: readFormData (sanitizeSauna), validateSauna, generatePlanSvg,
\* getTemplateById, composePlanDocument
RenderPreview ==
  LET sauna == sanitizeSauna(rawSauna)
      result == generatePlanSvg(sauna.config, [title |-> "Fundamentplan " \o sauna.name,
                                               dimTextFontSizePx |-> Undefined])
  IN  /\ validation' = validateSauna(sauna)
      /\ plan' = [done |-> TRUE, via |-> "preview", config |-> sauna.config, result |-> result]
      /\ layoutInput' = [given |-> TRUE, input |-> previewInput(sauna, result)]
      /\ composed' = [done |-> TRUE, result |-> composePlanDocument(previewInput(sauna, result))]
      /\ UNCHANGED <<rawSauna, feet, registry, lookup, exported, storeKind, saunas, db, lastPut, ui, submits>>

\* the preview of the form contents
InitPreview ==
  /\ rawSauna \in PreviewSaunas
  /\ feet = NoFeet
  /\ plan = NoPlan
  /\ validation = << >>
  /\ layoutInput = NoInput
  /\ composed = NoComposed
  /\ registry = templates
  /\ lookup = NoLookup
  /\ exported = NoExport
  /\ storeKind = "memory"
  /\ saunas = << >>
  /\ db = NoRows
  /\ lastPut = NoPuts
  /\ ui = NoUi
  /\ submits = NoSubmits

NextPreview == RenderPreview

SpecPreview == InitPreview /\ [][NextPreview]_vars

\* composePlanDocument called on its own, on any plan document and bounds
InitFit ==
  /\ rawSauna = Sauna("Neues Modell", "A4_PORTRAIT_STANDARD", ReferenceConfig)
  /\ feet = NoFeet
  /\ plan = NoPlan
  /\ validation = << >>
  /\ layoutInput \in {[given |-> TRUE, input |-> i] : i \in ComposeInputs}
  /\ composed = NoComposed
  /\ registry = templates
  /\ lookup = NoLookup
  /\ exported = NoExport
  /\ storeKind = "memory"
  /\ saunas = << >>
  /\ db = NoRows
  /\ lastPut = NoPuts
  /\ ui = NoUi
  /\ submits = NoSubmits

ComposeDocument ==
  /\ layoutInput.given
  /\ composed' = [done |-> TRUE, result |-> composePlanDocument(layoutInput.input)]
  /\ UNCHANGED <<rawSauna, feet, plan, validation, layoutInput, registry, lookup, exported, storeKind, saunas, db, lastPut, ui, submits>>

NextFit == ComposeDocument

SpecFit == InitFit /\ [][NextFit]_vars

\* Page layout for templates of the registry and templates of a caller.
InitSlots ==
  /\ rawSauna = Sauna("Neues Modell", "A4_PORTRAIT_STANDARD", ReferenceConfig)
  /\ feet = NoFeet
  /\ plan = NoPlan
  /\ validation = << >>
  /\ layoutInput \in {[given |-> TRUE, input |-> i] : i \in SlotComposeInputs}
  /\ composed = NoComposed
  /\ registry = templates
  /\ lookup = NoLookup
  /\ exported = NoExport
  /\ storeKind = "memory"
  /\ saunas = << >>
  /\ db = NoRows
  /\ lastPut = NoPuts
  /\ ui = NoUi
  /\ submits = NoSubmits

NextSlots == ComposeDocument

SpecSlots == InitSlots /\ [][NextSlots]_vars

\* the template registry and a caller that keeps the template it got
TemplateIdInputs ==
  { JsString("A4_PORTRAIT_STANDARD"), JsString("A4_LANDSCAPE_STANDARD"), JsString("A3_UNKNOWN"),
    JsString(""), JsUndefined, JsNull, JsNumber(1) }

NestedFieldInputs == { <<"page", "widthMm">>, <<"margins", "leftMm">> }
NestedValueInputs == { R(0), R(100) }
LabelInputs == { "Eigene Schablone" }

InitTemplates ==
  /\ rawSauna = Sauna("Neues Modell", "A4_PORTRAIT_STANDARD", ReferenceConfig)
  /\ feet = NoFeet
  /\ plan = NoPlan
  /\ validation = << >>
  /\ layoutInput = NoInput
  /\ composed = NoComposed
  /\ registry = templates
  /\ lookup = NoLookup
  /\ exported = NoExport
  /\ storeKind = "memory"
  /\ saunas = << >>
  /\ db = NoRows
  /\ lastPut = NoPuts
  /\ ui = NoUi
  /\ submits = NoSubmits

\* getTemplateById(templateId)
GetTemplateById ==
  \E templateId \in TemplateIdInputs :
    /\ lookup' = [done |-> TRUE, call |-> "getTemplateById", templateId |-> templateId,
                  threw |-> FALSE,
                  result |-> getTemplateById(registry, templateId),
                  shares |-> templateIndex(registry, templateId)]
    /\ UNCHANGED <<rawSauna, feet, plan, validation, layoutInput, composed, registry, exported, storeKind, saunas, db, lastPut, ui, submits>>

\* getDefaultTemplate()
GetDefaultTemplate ==
  /\ lookup' = [done |-> TRUE, call |-> "getDefaultTemplate", templateId |-> JsUndefined,
                threw |-> FALSE,
                result |-> getDefaultTemplate(registry), shares |-> 1]
  /\ UNCHANGED <<rawSauna, feet, plan, validation, layoutInput, composed, registry, exported, storeKind, saunas, db, lastPut, ui, submits>>

\* listTemplates(); the caller keeps one element of the returned array
ListTemplates ==
  \E i \in 1..Len(listTemplates(registry)) :
    /\ lookup' = [done |-> TRUE, call |-> "listTemplates", templateId |-> JsUndefined,
                  threw |-> FALSE,
                  result |-> listTemplates(registry)[i], shares |-> i]
    /\ UNCHANGED <<rawSauna, feet, plan, validation, layoutInput, composed, registry, exported, storeKind, saunas, db, lastPut, ui, submits>>

\* the caller assigns a top-level field of the copy it holds
AssignLabel ==
  \E label \in LabelInputs :
    /\ lookup.done
    /\ lookup' = [lookup EXCEPT !.result.label = label]
    /\ UNCHANGED <<rawSauna, feet, plan, validation, layoutInput, composed, registry, exported, storeKind, saunas, db, lastPut, ui, submits>>

\* the caller assigns a field of a nested object of the copy it holds; the
\* nested objects are the registry's own (the copy is shallow)
AssignNested ==
  \E path \in NestedFieldInputs, value \in NestedValueInputs :
    /\ lookup.done
    /\ lookup' = [lookup EXCEPT !.result[path[1]][path[2]] = value]
    /\ registry' = [registry EXCEPT ![lookup.shares][path[1]][path[2]] = value]
    /\ UNCHANGED <<rawSauna, feet, plan, validation, layoutInput, composed, exported, storeKind, saunas, db, lastPut, ui, submits>>

NextTemplates ==
  GetTemplateById \/ GetDefaultTemplate \/ ListTemplates \/ AssignLabel \/ AssignNested

SpecTemplates == InitTemplates /\ [][NextTemplates]_vars

\* Export: exportPlan is called with any document, format and file name in
\* any browser environment.
InitExport ==
  /\ rawSauna = Sauna("Neues Modell", "A4_PORTRAIT_STANDARD", ReferenceConfig)
  /\ feet = NoFeet
  /\ plan = NoPlan
  /\ validation = << >>
  /\ layoutInput = NoInput
  /\ composed = NoComposed
  /\ registry = templates
  /\ lookup = NoLookup
  /\ exported \in {[done |-> FALSE, input |-> i, env |-> e] : i \in ExportInputs, e \in Environments}
  /\ storeKind = "memory"
  /\ saunas = << >>
  /\ db = NoRows
  /\ lastPut = NoPuts
  /\ ui = NoUi
  /\ submits = NoSubmits

ExportPlan ==
  /\ ~exported.done
  /\ exported' = [done |-> TRUE, input |-> exported.input, env |-> exported.env,
                  outcome |-> exportPlan(exported.input, exported.env)]
  /\ UNCHANGED <<rawSauna, feet, plan, validation, layoutInput, composed, registry, lookup, storeKind, saunas, db, lastPut, ui, submits>>

NextExport == ExportPlan

SpecExport == InitExport /\ [][NextExport]_vars

\* Store: any sequence of upsert and remove calls on either store.
InitStore ==
  /\ rawSauna = Sauna("Neues Modell", "A4_PORTRAIT_STANDARD", ReferenceConfig)
  /\ feet = NoFeet
  /\ plan = NoPlan
  /\ validation = << >>
  /\ layoutInput = NoInput
  /\ composed = NoComposed
  /\ registry = templates
  /\ lookup = NoLookup
  /\ exported = NoExport
  /\ storeKind \in {"memory", "server"}
  /\ saunas = << >>
  /\ db = NoRows
  /\ lastPut = NoPuts
  /\ ui = NoUi
  /\ submits = NoSubmits

Upsert ==
  \E sauna \in StoreInputs :
    /\ IF storeKind = "memory"
       THEN saunas' = memoryUpsert(saunas, sauna) /\ db' = db
       ELSE db' = apiUpsert(db, sauna) /\ saunas' = saunas
    /\ lastPut' = [lastPut EXCEPT ![sanitizeStored(sauna).id] = sanitizeStored(sauna)]
    /\ UNCHANGED <<rawSauna, feet, plan, validation, layoutInput, composed, registry, lookup,
                   exported, storeKind, ui, submits>>

Remove ==
  \E id \in StoreIds :
    /\ IF storeKind = "memory"
       THEN saunas' = memoryRemove(saunas, id) /\ db' = db
       ELSE db' = apiRemove(db, id) /\ saunas' = saunas
    /\ lastPut' = [lastPut EXCEPT ![id] = Null]
    /\ UNCHANGED <<rawSauna, feet, plan, validation, layoutInput, composed, registry, lookup,
                   exported, storeKind, ui, submits>>

NextStore == Upsert \/ Remove

SpecStore == InitStore /\ [][NextStore]_vars

\* In-memory store: any sequence of loadInitialData, importFromJsonFile,
\* upsert and remove calls.
InitImport ==
  /\ rawSauna = Sauna("Neues Modell", "A4_PORTRAIT_STANDARD", ReferenceConfig)
  /\ feet = NoFeet
  /\ plan = NoPlan
  /\ validation = << >>
  /\ layoutInput = NoInput
  /\ composed = NoComposed
  /\ registry = templates
  /\ lookup = NoLookup
  /\ exported = NoExport
  /\ storeKind = "memory"
  /\ saunas = << >>
  /\ db = NoRows
  /\ lastPut = NoPuts
  /\ ui = NoUi
  /\ submits = NoSubmits

LoadInitialData ==
  \E response \in InitialResponses :
    /\ saunas' = loadInitialData(response)
    /\ UNCHANGED <<rawSauna, feet, plan, validation, layoutInput, composed, registry, lookup,
                   exported, storeKind, db, lastPut, ui, submits>>

ImportFromJsonFile ==
  \E file \in ImportFiles :
    /\ saunas' = importFromJsonFile(saunas, file).saunas
    /\ UNCHANGED <<rawSauna, feet, plan, validation, layoutInput, composed, registry, lookup,
                   exported, storeKind, db, lastPut, ui, submits>>

NextImport == LoadInitialData \/ ImportFromJsonFile \/ Upsert \/ Remove

SpecImport == InitImport /\ [][NextImport]_vars

\* Page: the handlers of the form, of the add-distance and export buttons and
\* the debounce timer, in any order.
InitPage ==
  /\ rawSauna = Sauna("Neues Modell", "A4_PORTRAIT_STANDARD", ReferenceConfig)
  /\ feet = NoFeet
  /\ plan = NoPlan
  /\ validation = << >>
  /\ layoutInput = NoInput
  /\ composed = NoComposed
  /\ registry = templates
  /\ lookup = NoLookup
  /\ exported = NoExport
  /\ storeKind = "memory"
  /\ saunas = << >>
  /\ db = NoRows
  /\ lastPut = NoPuts
  /\ ui = NoUi
  /\ submits = NoSubmits

\* the last statement of init: renderPreview()
InitRenderPreview ==
  /\ ~ui.initialised
  /\ ui' = [ui EXCEPT !.initialised = TRUE, !.composedDocument = renderPreview(ui.form)]
  /\ UNCHANGED <<rawSauna, feet, plan, validation, layoutInput, composed, registry, lookup,
                 exported, storeKind, saunas, db, lastPut, submits>>
  /\ submits = NoSubmits

\* form "input": state.dirty = true; renderPreviewDebounced()
FormInput ==
  \E name \in FormNames :
    /\ ui' = [ui EXCEPT !.form.name = name, !.timer = TRUE]
    /\ UNCHANGED <<rawSauna, feet, plan, validation, layoutInput, composed, registry, lookup,
                   exported, storeKind, saunas, db, lastPut, submits>>

\* btnAddDistance "click": push 80, writeFormData, renderPreviewDebounced()
BtnAddDistanceClick ==
  /\ Len(ui.form.footDistances) < MaxDistances
  /\ ui' = [ui EXCEPT !.form.footDistances = Append(@, R(80)), !.timer = TRUE]
  /\ UNCHANGED <<rawSauna, feet, plan, validation, layoutInput, composed, registry, lookup,
                 exported, storeKind, saunas, db, lastPut, submits>>

\* the timer set by debounce runs renderPreview
DebounceTimerFires ==
  /\ ui.timer
  /\ ui' = [ui EXCEPT !.timer = FALSE, !.composedDocument = renderPreview(ui.form)]
  /\ UNCHANGED <<rawSauna, feet, plan, validation, layoutInput, composed, registry, lookup,
                 exported, storeKind, saunas, db, lastPut, submits>>

\* distanceList "click" on a remove button: splice, writeFormData, renderPreview()
DistanceRemoveClick ==
  \E index \in 1..Len(ui.form.footDistances) :
    LET form == [ui.form EXCEPT !.footDistances =
                   SubSeq(@, 1, index - 1) \o SubSeq(@, index + 1, Len(@))]
    IN  /\ ui' = [ui EXCEPT !.form = form, !.composedDocument = renderPreview(form)]
        /\ UNCHANGED <<rawSauna, feet, plan, validation, layoutInput, composed, registry,
                       lookup, exported, storeKind, saunas, db, lastPut, submits>>

\* exportFormat "change": renderPreview()
ExportFormatChange ==
  \E format \in FormFormats :
    LET form == [ui.form EXCEPT !.format = format]
    IN  /\ ui' = [ui EXCEPT !.form = form, !.composedDocument = renderPreview(form)]
        /\ UNCHANGED <<rawSauna, feet, plan, validation, layoutInput, composed, registry,
                       lookup, exported, storeKind, saunas, db, lastPut, submits>>

\* btnExport "click": renderPreview() only when there is no composed document
\* yet, then exportPlan with the format and name read from the form
BtnExportClick ==
  LET composedDocument == IF ui.composedDocument = Null THEN renderPreview(ui.form)
                          ELSE ui.composedDocument
  IN  /\ ui' = [ui EXCEPT !.composedDocument = composedDocument,
                          !.exportCall = [input |-> exportArgument(ui.form, composedDocument),
                                          form |-> ui.form,
                                          timer |-> ui.timer]]
      /\ UNCHANGED <<rawSauna, feet, plan, validation, layoutInput, composed, registry, lookup,
                     exported, storeKind, saunas, db, lastPut, submits>>

NextPage ==
  \/ InitRenderPreview
  \/ FormInput
  \/ BtnAddDistanceClick
  \/ DebounceTimerFires
  \/ DistanceRemoveClick
  \/ ExportFormatChange
  \/ BtnExportClick

SpecPage == InitPage /\ [][NextPage]_vars

\* Saving: the submit handlers of the form on the server-backed store; a
\* handler gives way to other events at each of its awaits.
InitSubmit ==
  /\ rawSauna = Sauna("Neues Modell", "A4_PORTRAIT_STANDARD", ReferenceConfig)
  /\ feet = NoFeet
  /\ plan = NoPlan
  /\ validation = << >>
  /\ layoutInput = NoInput
  /\ composed = NoComposed
  /\ registry = templates
  /\ lookup = NoLookup
  /\ exported = NoExport
  /\ storeKind = "server"
  /\ saunas = << >>
  /\ db = upsertSauna(NoRows, SeedSauna)
  /\ lastPut = NoPuts
  /\ ui = NoUi
  /\ submits = NoSubmits

StoredRevision(rows, id) == IF id \in DOMAIN rows THEN rows[id].revision ELSE Zero

\* form "submit" up to the first await: the server answers getById
SubmitGetById(h) ==
  /\ submits.handlers[h].pc = "idle"
  /\ RLt(StoredRevision(db, submits.dataset.saunaId), R(MaxRevision))
  /\ submits' = [submits EXCEPT !.handlers[h] =
                   [pc |-> "prepare",
                    previous |-> apiGetById(db, submits.dataset.saunaId),
                    finalSauna |-> Null]]
  /\ UNCHANGED <<rawSauna, feet, plan, validation, layoutInput, composed, registry, lookup,
                 exported, storeKind, saunas, db, lastPut, ui>>

\* the handler resumes: readFormData, sanitizeSauna, nextRevision, and the
\* PUT request of upsert is sent
SubmitPrepare(h) ==
  /\ submits.handlers[h].pc = "prepare"
  /\ submits' = [submits EXCEPT !.handlers[h].pc = "put",
                                !.handlers[h].finalSauna =
                                   submitFinalSauna(submits.handlers[h].previous,
                                                    readFormData(submits.dataset))]
  /\ UNCHANGED <<rawSauna, feet, plan, validation, layoutInput, composed, registry, lookup,
                 exported, storeKind, saunas, db, lastPut, ui>>

\* the server handles the PUT request
SubmitPut(h) ==
  /\ submits.handlers[h].pc = "put"
  /\ db' = apiUpsert(db, submits.handlers[h].finalSauna)
  /\ submits' = [submits EXCEPT
                   !.handlers[h].pc = "reload",
                   !.lastSave =
                     [id |-> submits.handlers[h].finalSauna.id,
                      existed |-> submits.handlers[h].finalSauna.id \in DOMAIN db,
                      before |-> StoredRevision(db, submits.handlers[h].finalSauna.id),
                      after |-> StoredRevision(db', submits.handlers[h].finalSauna.id)]]
  /\ UNCHANGED <<rawSauna, feet, plan, validation, layoutInput, composed, registry, lookup,
                 exported, storeKind, saunas, lastPut, ui>>

\* the handler resumes: refreshSaunas, loadSelectedIntoForm writes the stored
\* record into the form
SubmitReload(h) ==
  /\ submits.handlers[h].pc = "reload"
  /\ submits' = [submits EXCEPT
                   !.handlers[h] = IdleHandler,
                   !.dataset = IF apiGetById(db, submits.handlers[h].finalSauna.id) = Null
                                 THEN @
                                 ELSE formDataset(apiGetById(db, submits.handlers[h].finalSauna.id))]
  /\ UNCHANGED <<rawSauna, feet, plan, validation, layoutInput, composed, registry, lookup,
                 exported, storeKind, saunas, db, lastPut, ui>>

NextSubmit ==
  \E h \in Handlers :
    \/ SubmitGetById(h)
    \/ SubmitPrepare(h)
    \/ SubmitPut(h)
    \/ SubmitReload(h)

SpecSubmit == InitSubmit /\ [][NextSubmit]_vars

\* ------------------------------------------------------------------------
\* Properties of the foot placement and the derived dimensions
\* ------------------------------------------------------------------------
RECURSIVE SumSeq(_)
SumSeq(s) == IF s = << >> THEN Zero ELSE RAdd(Head(s), SumSeq(Tail(s)))

NonNegFinite(v) == IsFinite(v) /\ RLe(Zero, v)

ValidFeetInput(config) ==
  /\ NonNegFinite(config.footThickness)
  /\ \A i \in 1..Len(config.footDistances) : NonNegFinite(config.footDistances[i])

SpanIdentity(config, m) ==
  LET t == config.footThickness
      d == config.footDistances
  IN  /\ m.footCount = Len(d) + 1
      /\ m.totalFootSpan = RAdd(SumSeq(d), RMul(R(m.footCount), t))
      /\ m.firstToLast = RSub(m.totalFootSpan, t)
      /\ (d = << >> => m.footCount = 1 /\ m.firstToLast = Zero)
      /\ (t = R(8) /\ d = <<R(79), R(100), R(79)>>
            => m.footCount = 4 /\ m.firstToLast = R(282) /\ m.totalFootSpan = R(290))

\* C1: for every config with finite footThickness >= 0 and footDistances >= 0,
\* computeDerivedDimensions (both variants) returns footCount = len + 1,
\* totalFootSpan = sum + footCount * footThickness and firstToLast =
\* totalFootSpan - footThickness, including the single-foot and reference cases.
C1_SpanIdentity ==
  /\ (plan.done /\ ValidFeetInput(plan.config)
        => SpanIdentity(plan.config, plan.result.metrics))
  /\ (feet.done /\ ValidFeetInput(rawSauna.config)
        => SpanIdentity(rawSauna.config, feet.derivedV1))

C1_Witness ==
  /\ plan.done /\ feet.done
  /\ plan.config = ReferenceConfig
  /\ plan.result.metrics.totalFootSpan = R(290)

StepsExact(config, centers) ==
  /\ Len(centers) = Len(config.footDistances) + 1
  /\ \A i \in 1..(Len(centers) - 1) :
       RSub(centers[i + 1], centers[i]) = RAdd(config.footThickness, config.footDistances[i])

StrictlyIncreasing(centers) ==
  \A i \in 1..(Len(centers) - 1) : RLt(centers[i], centers[i + 1])

\* C2 as stated: for footThickness >= 0 and footDistances >= 0 the centres are
\* strictly increasing and consecutive centres differ by footThickness + gap.
C2_Original ==
  feet.done /\ ValidFeetInput(rawSauna.config)
    => /\ StepsExact(rawSauna.config, feet.centers) /\ StrictlyIncreasing(feet.centers)
       /\ StepsExact(rawSauna.config, feet.centersV1) /\ StrictlyIncreasing(feet.centersV1)

IncreasingWherePositive(config, centers) ==
  \A i \in 1..(Len(centers) - 1) :
    /\ RLe(centers[i], centers[i + 1])
    /\ (RLt(Zero, RAdd(config.footThickness, config.footDistances[i]))
          => RLt(centers[i], centers[i + 1]))

\* C2 amended: consecutive centres differ by exactly footThickness + gap, so the
\* centres never decrease and increase strictly at every step where
\* footThickness + gap > 0.
C2_CentersMonotone ==
  feet.done /\ ValidFeetInput(rawSauna.config)
    => /\ StepsExact(rawSauna.config, feet.centers)
       /\ IncreasingWherePositive(rawSauna.config, feet.centers)
       /\ StepsExact(rawSauna.config, feet.centersV1)
       /\ IncreasingWherePositive(rawSauna.config, feet.centersV1)

C2_Witness ==
  /\ feet.done /\ ValidFeetInput(rawSauna.config)
  /\ Len(rawSauna.config.footDistances) = 3
  /\ rawSauna.config.footThickness = Zero
  /\ rawSauna.config.footDistances[1] = Zero
  /\ rawSauna.config.footDistances[2] = Frac(159, 2)
  /\ feet.centers[1] = feet.centers[2]
  /\ RLt(feet.centers[2], feet.centers[3])

\* ------------------------------------------------------------------------
\* Properties of the generated plan
\* ------------------------------------------------------------------------
Range(s) == {s[i] : i \in 1..Len(s)}

\* the elements of the layer group with the given class
LayerEls(svg, cls) ==
  LET idx == {i \in 1..Len(svg.nodes) : HasAttr(svg.nodes[i], "cls") /\ svg.nodes[i].cls = cls}
  IN  IF idx = {} THEN << >> ELSE svg.nodes[CHOOSE i \in idx : TRUE].els

ElMinX(e) == IF e.tag = "line" THEN RMin(e.x1, e.x2) ELSE e.x
ElMaxX(e) == IF e.tag = "line" THEN RMax(e.x1, e.x2)
             ELSE IF e.tag = "rect" THEN RAdd(e.x, e.width) ELSE e.x
ElMinY(e) == IF e.tag = "line" THEN RMin(e.y1, e.y2) ELSE e.y
ElMaxY(e) == IF e.tag = "line" THEN RMax(e.y1, e.y2)
             ELSE IF e.tag = "rect" THEN RAdd(e.y, e.height) ELSE e.y

InsideBounds(e, b) ==
  /\ RLe(b.minX, ElMinX(e)) /\ RLe(ElMaxX(e), b.maxX)
  /\ RLe(b.minY, ElMinY(e)) /\ RLe(ElMaxY(e), b.maxY)

StructuralShapes(svg) ==
  Range(LayerEls(svg, "layer-foundation"))
  \cup {e \in Range(LayerEls(svg, "layer-feet")) : e.tag = "rect"}
  \cup Range(LayerEls(svg, "layer-workarea"))

AnnotationElements(svg) ==
  Range(LayerEls(svg, "layer-measures"))
  \cup Range(LayerEls(svg, "layer-legend"))
  \cup Range(LayerEls(svg, "layer-headline"))

\* C3: every foundation rectangle, foot rectangle, the work-area rectangle and
\* its hatch lines lie inside the geometryBounds generatePlanSvg returns.
C3_ShapesInsideGeometryBounds ==
  plan.done =>
    \A e \in StructuralShapes(plan.result.svgElement) :
      InsideBounds(e, plan.result.geometryBounds)

\* a foot rectangle reaches below the lower edge of geometryBounds
C3_Witness ==
  /\ plan.done
  /\ plan.config = Config(R(200), R(8), R(0), << >>)
  /\ \E e \in StructuralShapes(plan.result.svgElement) :
        /\ e.cls = "saunafuss"
        /\ RLt(plan.result.geometryBounds.maxY, ElMaxY(e))

\* C4: every extension line, dimension line, label text and label box, legend
\* box and text and the headline lie inside the annotationBounds
\* generatePlanSvg returns.
C4_AnnotationsInsideAnnotationBounds ==
  plan.done =>
    \A e \in AnnotationElements(plan.result.svgElement) :
      InsideBounds(e, plan.result.annotationBounds)

\* the headline of the reference plan lies above the upper edge of annotationBounds
C4_Witness ==
  /\ plan.done
  /\ plan.config = ReferenceConfig
  /\ \E e \in Range(LayerEls(plan.result.svgElement, "layer-headline")) :
        RLt(e.y, plan.result.annotationBounds.minY)

\* C9 as stated: with 0 or 1 entries in footDistances generatePlanSvg returns
\* the foot-count warning and still produces the plan.
C9_Original ==
  plan.done /\ Len(plan.config.footDistances) <= 1
    => /\ WarnFootCount \in Range(plan.result.warnings)
       /\ Len(LayerEls(plan.result.svgElement, "layer-foundation"))
            = Len(plan.config.footDistances) + 1

\* C9 amended: with no entry in footDistances (a single foot) generatePlanSvg
\* returns the foot-count warning and still produces the plan; with one or more
\* entries it returns no foot-count warning.
C9_FootCountWarning ==
  plan.done
    => /\ Len(LayerEls(plan.result.svgElement, "layer-foundation"))
            = Len(plan.config.footDistances) + 1
       /\ plan.result.metrics.footCount = Len(plan.config.footDistances) + 1
       /\ (WarnFootCount \in Range(plan.result.warnings)
             <=> Len(plan.config.footDistances) = 0)

C9_Witness ==
  /\ plan.done
  /\ plan.config.footDistances = << >>
  /\ WarnFootCount \in Range(plan.result.warnings)
  /\ Len(LayerEls(plan.result.svgElement, "layer-feet")) = 2

InvalidDistance(v) == ~IsFinite(v) \/ RLt(v, Zero)

\* the gap between foot i and foot i + 1 as drawn by the generator
DrawnGap(svg, i) ==
  LET feetRects == [k \in 1..(Len(LayerEls(svg, "layer-feet")) \div 2) |->
                      LayerEls(svg, "layer-feet")[2 * k - 1]]
  IN  RSub(feetRects[i].y, RAdd(feetRects[i + 1].y, feetRects[i + 1].height))

\* C10: a negative or non-finite footDistances entry is used as 0 by the
\* geometry computation and a warning records the coercion, either among the
\* generatePlanSvg warnings or among those of validateSauna on the sanitised
\* record.
C10_CoercionWarned ==
  plan.done /\ (\E i \in 1..Len(rawSauna.config.footDistances) :
                  InvalidDistance(rawSauna.config.footDistances[i]))
    => /\ \A i \in 1..Len(rawSauna.config.footDistances) :
            InvalidDistance(rawSauna.config.footDistances[i])
              => DrawnGap(plan.result.svgElement, i) = Zero
       /\ WarnNegativeDistance
            \in Range(plan.result.warnings) \cup Range(validateSauna(sanitizeSauna(rawSauna)))

\* a negative gap is drawn as 0 and neither list of warnings mentions it
C10_Witness ==
  /\ plan.done
  /\ plan.config = Config(R(200), R(8), R(40), <<R(-5)>>)
  /\ DrawnGap(plan.result.svgElement, 1) = Zero
  /\ plan.result.warnings = << >>
  /\ validateSauna(sanitizeSauna(rawSauna)) = << >>

\* ------------------------------------------------------------------------
\* Properties of the page fit
\* ------------------------------------------------------------------------
Composed == composed.done /\ ~composed.result.threw

\* the group that carries fit.transform in the composed page
ContentGroup(svg) ==
  CHOOSE n \in Range(svg.nodes) :
    n.tag = "g" /\ HasAttr(n, "transform") /\ Len(n.transform) = 3
      /\ n.transform[2].fn = "scale"

FreeLeft(r) == RSub(ContentGroup(r.svgElement).transform[1].x, r.slots.content.x)
FreeRight(r) ==
  RSub(RAdd(r.slots.content.x, r.slots.content.width),
       RAdd(ContentGroup(r.svgElement).transform[1].x,
            RMul(r.fit.sourceBounds.width, r.fit.scale)))
FreeAbove(r) == RSub(ContentGroup(r.svgElement).transform[1].y, r.slots.content.y)
FreeBelow(r) ==
  RSub(RAdd(r.slots.content.y, r.slots.content.height),
       RAdd(ContentGroup(r.svgElement).transform[1].y,
            RMul(r.fit.sourceBounds.height, r.fit.scale)))

ExpectedScale(r) ==
  RMul(Frac(98, 100),
       RMin(RDiv(r.slots.content.width, r.fit.sourceBounds.width),
            RDiv(r.slots.content.height, r.fit.sourceBounds.height)))

GeometryBoundsInvalid(b) ==
  \/ b = Null
  \/ ~IsFinite(ToNumber(IF HasAttr(b, "xMin") THEN b.xMin ELSE Attr(b, "minX")))
  \/ ~IsFinite(ToNumber(IF HasAttr(b, "yMin") THEN b.yMin ELSE Attr(b, "minY")))
  \/ ~IsFinite(ToNumber(Attr(b, "width")))
  \/ ~IsFinite(ToNumber(Attr(b, "height")))
  \/ RLe(b.width, Zero)
  \/ RLe(b.height, Zero)

HasViewBoxExtent(svg) ==
  HasAttr(svg, "viewBox") /\ RLt(Zero, svg.viewBox.width) /\ RLt(Zero, svg.viewBox.height)

\* the rectangle [minX, maxX] x [minY, maxY] of a viewBox
ViewBoxExtent(vb) ==
  [minX |-> vb.x, minY |-> vb.y, maxX |-> RAdd(vb.x, vb.width), maxY |-> RAdd(vb.y, vb.height)]

Extent(b) == [minX |-> b.minX, minY |-> b.minY, maxX |-> b.maxX, maxY |-> b.maxY]

ExtentUnion(a, b) ==
  [minX |-> RMin(a.minX, b.minX), minY |-> RMin(a.minY, b.minY),
   maxX |-> RMax(a.maxX, b.maxX), maxY |-> RMax(a.maxY, b.maxY)]

GroupMissing(planSvg) ==
  \/ resolveGroup(planSvg, "geometry-group", "geometry") = Null
  \/ resolveGroup(planSvg, "annotation-group", "annotation") = Null

\* C7: composePlanDocument does not fail on a plan whose geometry group or
\* annotation group cannot be found: the whole plan document is then placed
\* under the fit transform as one unit and fit.warning is not empty.
C7_MissingGroupPlacesWholePlan ==
  composed.done /\ layoutInput.input.planSvg # Null
    => /\ ~composed.result.threw
       /\ GroupMissing(layoutInput.input.planSvg)
            => /\ ContentGroup(composed.result.svgElement).els = <<layoutInput.input.planSvg>>
               /\ composed.result.fit.warning # ""

\* the geometry group is missing: the whole plan is placed and a warning is set
C7_Witness ==
  /\ Composed
  /\ resolveGroup(layoutInput.input.planSvg, "geometry-group", "geometry") = Null
  /\ ContentGroup(composed.result.svgElement).els = <<layoutInput.input.planSvg>>
  /\ composed.result.fit.warning # ""

NonDegenerate(b) ==
  /\ b.width = RMax(One, RSub(b.maxX, b.minX))
  /\ RLe(One, b.width)
  /\ b.height = RMax(One, RSub(b.maxY, b.minY))
  /\ RLe(One, b.height)

\* C8: every bounding box handed out is non-degenerate: geometryBounds and
\* annotationBounds of generatePlanSvg and fit.sourceBounds of
\* composePlanDocument have width = max(1, maxX - minX) >= 1 and height =
\* max(1, maxY - minY) >= 1, for every config including footWidth = 0.
C8_BoundsNonDegenerate ==
  /\ plan.done => /\ NonDegenerate(plan.result.geometryBounds)
                  /\ NonDegenerate(plan.result.annotationBounds)
  /\ Composed => NonDegenerate(composed.result.fit.sourceBounds)

\* footWidth = 0: the page fit still works on a box of at least 1 x 1
C8_Witness ==
  /\ plan.done /\ Composed
  /\ plan.config.footWidth = Zero
  /\ plan.result.geometryBounds.width = Zero
  /\ NonDegenerate(composed.result.fit.sourceBounds)

\* ------------------------------------------------------------------------
\* Properties of the preview
\* ------------------------------------------------------------------------
\* zero, negative or not a number
InvalidDimension(v) == ~IsFinite(v) \/ RLe(v, Zero)

\* the warnings renderPreview shows: validateSauna followed by generatePlanSvg
CombinedWarnings == Range(validation) \cup Range(plan.result.warnings)

PlanComplete(result) ==
  /\ result.svgElement.tag = "svg"
  /\ DOMAIN result.metrics = {"footCount", "totalFootSpan", "firstToLast"}
  /\ {"minX", "minY", "maxX", "maxY", "width", "height"} \subseteq DOMAIN result.geometryBounds
  /\ {"minX", "minY", "maxX", "maxY", "width", "height"} \subseteq DOMAIN result.annotationBounds

\* C11: for every config whose barrel size, foot size or foundation width is
\* zero, negative or not a number, the preview still gets a plan with metrics
\* and both bounds from generatePlanSvg, and the warnings of validateSauna and
\* generatePlanSvg together name the invalid dimension.
C11_InvalidDimensionsWarned ==
  plan.done =>
    /\ PlanComplete(plan.result)
    /\ (InvalidDimension(rawSauna.config.barrelLength)
          \/ InvalidDimension(rawSauna.config.barrelWidth))
         => WarnBarrel \in CombinedWarnings
    /\ InvalidDimension(rawSauna.config.footWidth)
         => WarnFootWidth \in CombinedWarnings /\ WarnFoot \in CombinedWarnings
    /\ InvalidDimension(rawSauna.config.footThickness)
         => WarnFootThickness \in CombinedWarnings /\ WarnFoot \in CombinedWarnings
    /\ InvalidDimension(rawSauna.config.foundationWidth)
         => WarnFoundationWidth \in CombinedWarnings /\ WarnFoundation \in CombinedWarnings

\* a barrel length that is not a number: only validateSauna names it
C11_Witness ==
  /\ plan.done
  /\ rawSauna.config = [ReferenceConfig EXCEPT !.barrelLength = NaN]
  /\ PlanComplete(plan.result)
  /\ validation = <<WarnBarrel>>
  /\ plan.result.warnings = << >>

\* ------------------------------------------------------------------------
\* Properties of the template registry
\* ------------------------------------------------------------------------
KnownIds == {templates[i].id : i \in 1..Len(templates)}

IsKnownId(templateId) == templateId.t = "string" /\ templateId.v \in KnownIds

IsTemplate(t) == DOMAIN t = {"id", "label", "page", "margins", "regions"}

\* C12: for every template id, known or unknown, empty or not a string,
\* getTemplateById returns a template and does not throw; for a known id it
\* is the template with that id and for every other value it is the default
\* template A4_PORTRAIT_STANDARD.
C12_UnknownIdGivesDefault ==
  lookup.done /\ lookup.call = "getTemplateById"
    => /\ ~lookup.threw
       /\ IsTemplate(lookup.result)
       /\ IsKnownId(lookup.templateId) => lookup.result.id = lookup.templateId.v
       /\ ~IsKnownId(lookup.templateId) => lookup.result.id = "A4_PORTRAIT_STANDARD"

\* a number as id gives the default template, and the landscape id its own
C12_Witness ==
  /\ lookup.done /\ lookup.call = "getTemplateById"
  /\ lookup.templateId = JsNumber(1)
  /\ lookup.result.id = "A4_PORTRAIT_STANDARD"
  /\ lookup.result.label = "A4 Hochformat Standard"

\* ------------------------------------------------------------------------
\* Export
\* ------------------------------------------------------------------------
DocumentInvalid ==
  \/ exported.input.composedDocument = Null
  \/ ~IsSvgRoot(Attr(exported.input.composedDocument, "svgElement"))

PdfCapabilityUnavailable ==
  \/ exported.env.jspdf # "loaded"
  \/ exported.env.docSvg # "function" /\ exported.env.svg2pdf # "function"

FileEmitted ==
  \E i \in 1..Len(exported.outcome.effects) :
    exported.outcome.effects[i].op \in {"link.click", "doc.save"}

FailsExplicitly == exported.outcome.threw /\ exported.outcome.error # ""

\* C13 as stated: a call without a valid composed document, or with the PDF
\* rendering capability unavailable, fails with an explicit error and emits
\* no file.
C13_Original ==
  exported.done /\ (DocumentInvalid \/ PdfCapabilityUnavailable)
    => FailsExplicitly /\ ~FileEmitted

\* C13: a call without a valid composed document, or a call for a format
\* other than "svg" with the PDF rendering capability unavailable, fails with
\* an explicit error, and no failing call clicks the download link or calls
\* doc.save.
C13_FailedExportEmitsNothing ==
  exported.done
    => /\ DocumentInvalid \/ (exported.input.format # "svg" /\ PdfCapabilityUnavailable)
          => FailsExplicitly
       /\ exported.outcome.threw => ~FileEmitted

C13_Witness ==
  /\ exported.done
  /\ ~DocumentInvalid
  /\ exported.input.format = "pdf"
  /\ exported.env.jspdf = "loaded"
  /\ exported.env.docSvg = "absent" /\ exported.env.svg2pdf = "absent"
  /\ exported.outcome = Threw(ErrNoRenderer, << >>)

\* ------------------------------------------------------------------------
\* Configuration store
\* ------------------------------------------------------------------------
LiveIds == {id \in StoreIds : lastPut[id] # Null}

Occurrences(list, id) == Cardinality({i \in 1..Len(list) : list[i].id = id})

GetByIdReflectsLastPut ==
  \A id \in StoreIds : storeGetById(storeKind, saunas, db, id) = lastPut[id]

GetAllOnePerLiveId ==
  /\ Len(storeGetAll(storeKind, saunas, db)) = Cardinality(LiveIds)
  /\ \A id \in LiveIds : Occurrences(storeGetAll(storeKind, saunas, db), id) = 1

\* C14: after any sequence of upsert and remove calls, getById(id) returns
\* the sanitized record of the most recent upsert for that id if no later
\* remove(id) happened and null otherwise, and getAll returns exactly one
\* record per live id.
C14_StoreReflectsLastUpsert == GetByIdReflectsLastPut /\ GetAllOnePerLiveId

\* C14 for the in-memory store alone
C14_MemoryStoreReflectsLastUpsert ==
  storeKind = "memory" => GetByIdReflectsLastPut /\ GetAllOnePerLiveId

\* the store behind the API has taken an upsert with an image after an upsert
\* of the same id with another creation date
C14_Witness ==
  /\ storeKind = "server"
  /\ <<"a">> \in DOMAIN db
  /\ lastPut[<<"a">>] # Null
  /\ lastPut[<<"a">>].images # << >>
  /\ lastPut[<<"a">>].createdAt # db[<<"a">>].created_at

\* ------------------------------------------------------------------------
\* Placement in the content slot
\* ------------------------------------------------------------------------
ContentRegionPositive(r) ==
  RLt(Zero, r.slots.content.width) /\ RLt(Zero, r.slots.content.height)

\* the axis whose slot-to-source ratio is the smaller one limits the scale
WidthLimits(r) ==
  RLe(RDiv(r.slots.content.width, r.fit.sourceBounds.width),
      RDiv(r.slots.content.height, r.fit.sourceBounds.height))
HeightLimits(r) ==
  RLe(RDiv(r.slots.content.height, r.fit.sourceBounds.height),
      RDiv(r.slots.content.width, r.fit.sourceBounds.width))

\* C15: for every source bounds and every template whose content region has
\* positive width and height, the scaled content rectangle lies inside the
\* content slot on both axes and stays clear of the slot edges on the
\* limiting axis.
C15_ContentInsideSlot ==
  Composed /\ ContentRegionPositive(composed.result)
    => /\ RLe(Zero, FreeLeft(composed.result)) /\ RLe(Zero, FreeRight(composed.result))
       /\ RLe(Zero, FreeAbove(composed.result)) /\ RLe(Zero, FreeBelow(composed.result))
       /\ WidthLimits(composed.result)
            => RLt(Zero, FreeLeft(composed.result)) /\ RLt(Zero, FreeRight(composed.result))
       /\ HeightLimits(composed.result)
            => RLt(Zero, FreeAbove(composed.result)) /\ RLt(Zero, FreeBelow(composed.result))

\* a wide drawing on the template whose bands leave one pixel of content height
C15_Witness ==
  /\ Composed
  /\ layoutInput.input.template.id = "CUSTOM_BANDS"
  /\ layoutInput.input.planGeometryBounds = Bounds(R(-50), R(0), R(950), R(10))
  /\ composed.result.slots.content.height = One
  /\ HeightLimits(composed.result)
  /\ RLt(Zero, FreeAbove(composed.result))
  /\ RLt(FreeAbove(composed.result), FreeLeft(composed.result))

\* ------------------------------------------------------------------------
\* Wholesale transform and per-coordinate projection
\* ------------------------------------------------------------------------
SourcePoints ==
  { [x |-> a, y |-> b] : a \in {R(-20), R(0), Frac(401, 2)}, b \in {R(0), R(10), R(280)} }

\* the fit that composePlanDocument computes for the page
PageFit ==
  buildFitTransform(layoutInput.input.planSvg, composed.result.slots.content,
                    layoutInput.input.planGeometryBounds, layoutInput.input.planAnnotationBounds,
                    layoutInput.input.template.page.orientation)

\* offset + (point - sourceMin) * scale with the values of the composed page
ExpectedPagePoint(r, p) ==
  [x |-> RAdd(ContentGroup(r.svgElement).transform[1].x,
              RMul(RSub(p.x, r.fit.sourceBounds.xMin), r.fit.scale)),
   y |-> RAdd(ContentGroup(r.svgElement).transform[1].y,
              RMul(RSub(p.y, r.fit.sourceBounds.yMin), r.fit.scale))]

PageAnnotationGroup(r) == resolveGroup(r.svgElement, "annotation-group", "annotation")
SourceAnnotationGroup == resolveGroup(layoutInput.input.planSvg, "annotation-group", "annotation")

SourceLines(group) ==
  {e \in Range(group.els) :
     e.tag = "line" /\ \A a \in {"x1", "y1", "x2", "y2"} : HasAttr(e, a) /\ IsFinite(e[a])}

\* C16: the transform of the geometry layer, translate(offset) scale(s)
\* translate(-sourceMin), maps every source point to the page point that
\* projectX / projectY give, offset + (point - sourceMin) * s on both axes;
\* the ends of every projected annotation line lie where the transform maps
\* the ends of its source line.
C16_TransformEqualsProjection ==
  Composed =>
    /\ \A p \in SourcePoints :
         /\ applyTransformList(ContentGroup(composed.result.svgElement).transform, p)
              = projectPoint(p.x, p.y, PageFit)
         /\ projectPoint(p.x, p.y, PageFit) = ExpectedPagePoint(composed.result, p)
    /\ SourceAnnotationGroup # Null =>
         \A e \in SourceLines(SourceAnnotationGroup) :
           \E q \in Range(PageAnnotationGroup(composed.result).els) :
             /\ q.tag = "line"
             /\ [x |-> q.x1, y |-> q.y1]
                  = applyTransformList(ContentGroup(composed.result.svgElement).transform,
                                       [x |-> e.x1, y |-> e.y1])
             /\ [x |-> q.x2, y |-> q.y2]
                  = applyTransformList(ContentGroup(composed.result.svgElement).transform,
                                       [x |-> e.x2, y |-> e.y2])

\* a page whose source bounds start away from the origin on both axes and
\* that carries a projected annotation line
C16_Witness ==
  /\ Composed
  /\ composed.result.fit.sourceBounds.xMin = R(10)
  /\ composed.result.fit.sourceBounds.yMin = R(10)
  /\ composed.result.fit.scale # One
  /\ SourceAnnotationGroup # Null
  /\ SourceLines(SourceAnnotationGroup) # {}
  /\ applyTransformList(ContentGroup(composed.result.svgElement).transform,
                        [x |-> R(10), y |-> R(10)])
       = [x |-> ContentGroup(composed.result.svgElement).transform[1].x,
          y |-> ContentGroup(composed.result.svgElement).transform[1].y]

\* ------------------------------------------------------------------------
\* Projection of the annotation group
\* ------------------------------------------------------------------------
IsLayerNote(e) == HasAttr(e, "cls") /\ e.cls = "layer-note"

\* the elements of a tree in document order, each without its children
RECURSIVE TreeElements(_)
RECURSIVE ForestElements(_)
TreeElements(e) ==
  IF HasAttr(e, "els") THEN <<[e EXCEPT !.els = << >>]>> \o ForestElements(e.els) ELSE <<e>>
ForestElements(list) ==
  IF list = << >> THEN << >> ELSE TreeElements(Head(list)) \o ForestElements(Tail(list))

\* the same without the .layer-note elements and what they contain
RECURSIVE KeptElements(_)
RECURSIVE KeptForest(_)
KeptElements(e) ==
  IF HasAttr(e, "els") THEN <<[e EXCEPT !.els = << >>]>> \o KeptForest(e.els) ELSE <<e>>
KeptForest(list) ==
  IF list = << >> THEN << >>
  ELSE IF IsLayerNote(Head(list)) THEN KeptForest(Tail(list))
  ELSE KeptElements(Head(list)) \o KeptForest(Tail(list))

PositionAttrs == {"x1", "y1", "x2", "y2", "x", "y", "cx", "cy"}
XAttrs == {"x1", "x2", "x", "cx"}
LengthAttrs == {"width", "height", "rx", "ry", "r"}

Readable(e, a) == HasAttr(e, a) /\ IsFinite(e[a])

Projected(a, value) ==
  IF a \in XAttrs THEN projectX(PageFit, value) ELSE projectY(PageFit, value)

\* the position attribute a of e is one that the projection of e's tag reads,
\* together with readable partners
PositionRead(e, a) ==
  IF e.tag = "line" THEN a \in {"x1", "y1", "x2", "y2"}
                         /\ \A b \in {"x1", "y1", "x2", "y2"} : Readable(e, b)
  ELSE IF a \in {"x", "y"} THEN Readable(e, "x") /\ Readable(e, "y")
  ELSE IF a \in {"cx", "cy"} THEN e.tag # "text" /\ Readable(e, "cx") /\ Readable(e, "cy")
  ELSE FALSE

\* q is e with every position projected, every length scaled, and nothing
\* else touched
ProjectedAsStated(e, q) ==
  /\ DOMAIN q = DOMAIN e
  /\ \A a \in DOMAIN e :
       q[a] = IF a \in PositionAttrs THEN Projected(a, e[a])
              ELSE IF a \in LengthAttrs THEN RMul(e[a], composed.result.fit.scale)
              ELSE e[a]

TransformKept(t, u) ==
  /\ Len(u) = Len(t)
  /\ \A k \in 1..Len(t) : u[k].fn = t[k].fn /\ (t[k].fn # "rotate" => u[k] = t[k])

ProjectedElement(e, q, isRoot) ==
  /\ DOMAIN q = (IF isRoot THEN DOMAIN e \ {"transform"} ELSE DOMAIN e)
  /\ \A a \in DOMAIN q :
       IF a \in PositionAttrs /\ PositionRead(e, a) THEN q[a] = Projected(a, e[a])
       ELSE IF a \in LengthAttrs /\ Readable(e, a)
         THEN q[a] = RMul(e[a], composed.result.fit.scale)
       ELSE IF a = "transform" THEN TransformKept(e[a], q[a])
       ELSE q[a] = e[a]

HasPivot(f) == f.fn = "rotate" /\ HasAttr(f, "x") /\ HasAttr(f, "y")

\* q carries the rotations of e with the angle kept and the pivot projected
PivotsProjected(e, q) ==
  /\ HasAttr(q, "transform")
  /\ Len(q.transform) = Len(e.transform)
  /\ \A k \in 1..Len(e.transform) :
       HasPivot(e.transform[k])
         => /\ HasPivot(q.transform[k])
            /\ q.transform[k].angle = e.transform[k].angle
            /\ q.transform[k].x = projectX(PageFit, e.transform[k].x)
            /\ q.transform[k].y = projectY(PageFit, e.transform[k].y)

\* the pivot of every rotation of e is the anchor (x, y) of e
PivotAtAnchor(e) ==
  /\ HasAttr(e, "x") /\ HasAttr(e, "y") /\ HasAttr(e, "transform")
  /\ \A k \in 1..Len(e.transform) :
       HasPivot(e.transform[k]) => e.transform[k].x = e.x /\ e.transform[k].y = e.y

RotatedElements(list) ==
  {i \in 1..Len(list) :
     /\ i > 1
     /\ HasAttr(list[i], "transform")
     /\ \E k \in 1..Len(list[i].transform) : HasPivot(list[i].transform[k])}

\* C18: every annotation element carrying rotate(angle px py) is projected to
\* an element carrying rotate(angle px' py') with (px', py') the projection
\* of (px, py) and the angle unchanged, so that a label whose pivot is its
\* anchor before the projection has its pivot at its anchor afterwards.
C18_RotatePivotProjected ==
  Composed /\ SourceAnnotationGroup # Null
    => \A i \in RotatedElements(KeptElements(SourceAnnotationGroup)) :
         /\ PivotsProjected(KeptElements(SourceAnnotationGroup)[i],
                            TreeElements(PageAnnotationGroup(composed.result))[i])
         /\ PivotAtAnchor(KeptElements(SourceAnnotationGroup)[i])
              => PivotAtAnchor(TreeElements(PageAnnotationGroup(composed.result))[i])

\* the two rotated labels on the page that halves them: the label at the
\* ordinary place turns about its moved anchor, the label 2^-20 right of the
\* origin is moved while its pivot stays
C18_Witness ==
  /\ Composed
  /\ layoutInput.input = RotatedLabelsInput
  /\ composed.result.fit.scale = Frac(1, 2)
  /\ PivotAtAnchor(PageAnnotationGroup(composed.result).els[1])
  /\ PageAnnotationGroup(composed.result).els[1].x = projectX(PageFit, R(-24))
  /\ PageAnnotationGroup(composed.result).els[2].x = projectX(PageFit, Frac(1, 1048576))
  /\ PageAnnotationGroup(composed.result).els[2].transform[1].x = Frac(1, 1048576)
  /\ PageAnnotationGroup(composed.result).els[2].transform[1].y = R(14)
  /\ PageAnnotationGroup(composed.result).els[2].y # R(14)

\* ------------------------------------------------------------------------
\* Bands of the page
\* ------------------------------------------------------------------------
NonNegativeBands(t) ==
  \A v \in {t.margins.topMm, t.margins.rightMm, t.margins.bottomMm, t.margins.leftMm,
            t.regions.headerMm, t.regions.legendMm} : RLe(Zero, v)

\* what the margins and the two bands leave of the page height, in px
RoomForContent(t) ==
  RSub(mmToPx(t.page.heightMm),
       RAdd(RAdd(mmToPx(t.margins.topMm), mmToPx(t.margins.bottomMm)),
            RAdd(mmToPx(t.regions.headerMm), mmToPx(t.regions.legendMm))))

SpanInnerWidth(t, slots) ==
  \A band \in {slots.header, slots.content, slots.legend} :
    /\ band.x = mmToPx(t.margins.leftMm)
    /\ RAdd(band.x, band.width) = RSub(mmToPx(t.page.widthMm), mmToPx(t.margins.rightMm))

Stacked(t, slots) ==
  /\ slots.header.y = mmToPx(t.margins.topMm)
  /\ slots.content.y = RAdd(slots.header.y, slots.header.height)
  /\ slots.legend.y = RAdd(slots.content.y, slots.content.height)
  /\ slots.header.height = mmToPx(t.regions.headerMm)
  /\ slots.legend.height = mmToPx(t.regions.legendMm)

LegendEndsAtBottomMargin(t, slots) ==
  RAdd(slots.legend.y, slots.legend.height)
    = RSub(mmToPx(t.page.heightMm), mmToPx(t.margins.bottomMm))

\* C19 as stated: for every template with non-negative margins and band
\* heights the three slots span the inner width, are stacked, and the legend
\* ends at page height minus the bottom margin.
C19_Original ==
  Composed /\ NonNegativeBands(layoutInput.input.template)
    => /\ SpanInnerWidth(layoutInput.input.template, composed.result.slots)
       /\ Stacked(layoutInput.input.template, composed.result.slots)
       /\ LegendEndsAtBottomMargin(layoutInput.input.template, composed.result.slots)

\* C19: for every template with non-negative margins and band heights the
\* header, content and legend slots span the page width minus the left and
\* right margins and are stacked without gap or overlap from the top margin
\* on; the legend ends at page height minus the bottom margin if and only if
\* margins and bands leave at least one pixel of height for the content,
\* and ends below it otherwise.
C19_BandsPartitionPage ==
  Composed /\ NonNegativeBands(layoutInput.input.template)
    => /\ SpanInnerWidth(layoutInput.input.template, composed.result.slots)
       /\ Stacked(layoutInput.input.template, composed.result.slots)
       /\ RLe(One, composed.result.slots.content.height)
       /\ LegendEndsAtBottomMargin(layoutInput.input.template, composed.result.slots)
            <=> RLe(One, RoomForContent(layoutInput.input.template))
       /\ RLe(RSub(mmToPx(layoutInput.input.template.page.heightMm),
                   mmToPx(layoutInput.input.template.margins.bottomMm)),
              RAdd(composed.result.slots.legend.y, composed.result.slots.legend.height))

\* the A4 portrait page: 22 mm of header, 30 mm of legend, 2 mm margins
C19_Witness ==
  /\ Composed
  /\ layoutInput.input.template.id = "A4_PORTRAIT_STANDARD"
  /\ composed.result.slots.header.y = mmToPx(R(2))
  /\ composed.result.slots.content.y = mmToPx(R(24))
  /\ composed.result.slots.content.height = mmToPx(R(241))
  /\ composed.result.slots.legend.y = mmToPx(R(265))
  /\ RAdd(composed.result.slots.legend.y, composed.result.slots.legend.height) = mmToPx(R(295))
  /\ composed.result.slots.header.width = mmToPx(R(206))

\* ------------------------------------------------------------------------
\* Foundation strips
\* ------------------------------------------------------------------------
FoundationRects == LayerEls(plan.result.svgElement, "layer-foundation")
FootRects ==
  SelectSeq(LayerEls(plan.result.svgElement, "layer-feet"),
            LAMBDA e : HasAttr(e, "cls") /\ e.cls = "saunafuss")

\* the feet repeat along y; x is the cross axis
RepeatAxisCentre(rect) == RAdd(rect.y, RHalf(rect.height))
CrossAxisExtent(rect) == rect.width

FoundationsCentredOnFeet ==
  /\ Len(FoundationRects) = Len(FootRects)
  /\ \A i \in 1..Len(FootRects) :
       RepeatAxisCentre(FoundationRects[i]) = RepeatAxisCentre(FootRects[i])

\* C20: for every foot i, generatePlanSvg draws a foundation rectangle whose
\* centre on the repeat axis equals the centre of foot i and whose cross-axis
\* extent equals foundationWidth, independently of footWidth.
C20_FoundationSpansFoundationWidth ==
  plan.done
    => /\ FoundationsCentredOnFeet
       /\ \A i \in 1..Len(FoundationRects) :
            CrossAxisExtent(FoundationRects[i]) = NonNeg(plan.config.foundationWidth)

\* four feet 200 wide on foundations 40 wide: every strip is centred on its
\* foot, is 200 long across and 40 along the repeat axis
C20_Witness ==
  /\ plan.done
  /\ plan.config = ReferenceConfig
  /\ Len(FoundationRects) = 4
  /\ FoundationsCentredOnFeet
  /\ \A i \in 1..4 :
       /\ CrossAxisExtent(FoundationRects[i]) = R(200)
       /\ FoundationRects[i].height = R(40)

\* ------------------------------------------------------------------------
\* Dimension placement
\* ------------------------------------------------------------------------
MeasureEls == LayerEls(plan.result.svgElement, "layer-measures")

\* the double arrows of the vertical dimensions: stroked lines along the
\* repeat axis
DimensionLines ==
  SelectSeq(MeasureEls,
            LAMBDA e : e.tag = "line" /\ HasAttr(e, "stroke") /\ e.x1 = e.x2)

DimensionLinesAt(xPos) == SelectSeq(DimensionLines, LAMBDA e : e.x1 = xPos)

\* y1 is the upper and y2 the lower end of a dimension line on the page
InteriorsDisjoint(a, b) ==
  \/ a.y1 = a.y2
  \/ b.y1 = b.y2
  \/ RLe(a.y2, b.y1)
  \/ RLe(b.y2, a.y1)

PairwiseDisjoint(lines) ==
  \A i, j \in 1..Len(lines) : i < j => InteriorsDisjoint(lines[i], lines[j])

LateralOffsets == {DimensionLines[i].x1 : i \in 1..Len(DimensionLines)}

\* C21: any two dimension lines that generatePlanSvg draws at the same
\* lateral offset cover intervals with disjoint interiors along the repeat
\* axis.
C21_DimensionsDisjoint ==
  plan.done => \A xPos \in LateralOffsets : PairwiseDisjoint(DimensionLinesAt(xPos))

\* feet 8 thick standing edge to edge on foundations 40 wide: the foundation
\* dimensions of the two feet share the outer left offset and overlap
C21_Witness ==
  /\ plan.done
  /\ plan.config = Config(R(200), R(8), R(40), <<R(0)>>)
  /\ Len(DimensionLinesAt(LAYOUT.massLinksAussenAbstand)) = 2
  /\ ~PairwiseDisjoint(DimensionLinesAt(LAYOUT.massLinksAussenAbstand))
  /\ PairwiseDisjoint(DimensionLinesAt(LAYOUT.massLinksInnenAbstand))

\* every dimension is drawn as five elements: two extension lines, the double
\* arrow, the label box and the label
Dimensions ==
  [k \in 1..(Len(MeasureEls) \div 5) |->
    [ext1 |-> MeasureEls[5 * k - 4], ext2 |-> MeasureEls[5 * k - 3],
     line |-> MeasureEls[5 * k - 2], box |-> MeasureEls[5 * k - 1],
     label |-> MeasureEls[5 * k]]]

DimensionsOfColor(color) == SelectSeq(Dimensions, LAMBDA d : d.line.stroke = color)

\* the gap dimensions and the work-area dimension are the red ones; the
\* work-area dimension is drawn last
GapDimensions == SubSeq(DimensionsOfColor("red"), 1, Len(DimensionsOfColor("red")) - 1)
PerFootDimensions == DimensionsOfColor("darkgreen") \o DimensionsOfColor("darkred")

\* the first k decimal digits of a fraction num / den in [0, 1)
RECURSIVE DecimalDigits(_, _, _)
DecimalDigits(num, den, k) ==
  IF num = 0 \/ k = 0 THEN ""
  ELSE ToString((num * 10) \div den) \o DecimalDigits((num * 10) % den, den, k - 1)

\* the text a number is written as: String(value)
RECURSIVE NumberText(_)
NumberText(value) ==
  IF IsNaN(value) THEN "NaN"
  ELSE IF IsInt(value) THEN ToString(value.n)
  ELSE IF RLt(value, Zero) THEN "-" \o NumberText(RNeg(value))
  ELSE ToString(RFloor(value).n) \o "."
       \o DecimalDigits(value.n - RFloor(value).n * value.d, value.d, 6)

GapCount == Len(plan.config.footDistances)

\* gap dimension i runs from the upper edge of foot i to the lower edge of
\* foot i + 1 (on the page foot i + 1 lies above foot i)
SpansGap(d, i) ==
  /\ d.line.y2 = FootRects[i].y
  /\ d.line.y1 = RAdd(FootRects[i + 1].y, FootRects[i + 1].height)

\* one offset right of the structure, while the per-foot dimensions are left of it
GapDimensionsPlacement ==
  /\ Len(GapDimensions) = GapCount
  /\ Len(FootRects) = GapCount + 1
  /\ \A i \in 1..GapCount :
       /\ GapDimensions[i].line.x1 = GapDimensions[1].line.x1
       /\ GapDimensions[i].line.x2 = GapDimensions[1].line.x1
       /\ RLt(NonNeg(plan.config.footWidth), GapDimensions[i].line.x1)
       /\ SpansGap(GapDimensions[i], i)
  /\ \A k \in 1..Len(PerFootDimensions) : RLt(PerFootDimensions[k].line.x1, Zero)

\* the statement as claimed: the label of gap dimension i is footDistances[i]
C22_Original ==
  plan.done
    => /\ GapDimensionsPlacement
       /\ \A i \in 1..GapCount :
            GapDimensions[i].label.text = NumberText(plan.config.footDistances[i])

\* C22: for every config with n gaps, generatePlanSvg emits exactly n gap
\* dimensions, all at the same lateral offset on the side opposite the
\* per-foot dimensions; the i-th spans exactly from the trailing edge of foot i
\* to the leading edge of foot i+1 and its label shows the gap used for the
\* geometry: footDistances[i], or 0 for a negative or non-numeric entry,
\* written as an integer or rounded to one decimal.
C22_GapDimensions ==
  plan.done
    => /\ GapDimensionsPlacement
       /\ \A i \in 1..GapCount :
            GapDimensions[i].label.text = fmt(NonNeg(plan.config.footDistances[i]))

\* the reference config: three gap dimensions labelled 79, 100, 79
C22_Witness ==
  /\ plan.done
  /\ plan.config = ReferenceConfig
  /\ Len(GapDimensions) = 3
  /\ GapDimensions[1].label.text = "79"
  /\ GapDimensions[2].label.text = "100"
  /\ GapDimensions[3].label.text = "79"
  /\ GapDimensions[1].line.x1 = Frac(214175, 1000)
  /\ SpansGap(GapDimensions[2], 2)
  /\ RSub(GapDimensions[2].line.y2, GapDimensions[2].line.y1) = R(100)

\* ------------------------------------------------------------------------
\* Extension lines
\* ------------------------------------------------------------------------
ExtensionLines ==
  SelectSeq(MeasureEls, LAMBDA e : HasAttr(e, "cls") /\ e.cls = "hilfs-line")

WorkAreaRects ==
  SelectSeq(LayerEls(plan.result.svgElement, "layer-workarea"),
            LAMBDA e : HasAttr(e, "cls") /\ e.cls = "arbeitsbereich")

StructuralRects == FoundationRects \o FootRects \o WorkAreaRects

\* an axis-parallel line has a point in common with the closed rectangle
Touches(line, rect) ==
  /\ RLe(ElMinX(line), ElMaxX(rect))
  /\ RLe(ElMinX(rect), ElMaxX(line))
  /\ RLe(ElMinY(line), ElMaxY(rect))
  /\ RLe(ElMinY(rect), ElMaxY(line))

\* the line has a point strictly inside the rectangle
Crosses(line, rect) ==
  /\ RLt(ElMinX(line), ElMaxX(rect))
  /\ RLt(ElMinX(rect), ElMaxX(line))
  /\ RLt(ElMinY(line), ElMaxY(rect))
  /\ RLt(ElMinY(rect), ElMaxY(line))

\* C23: every extension line emitted for a dimension starts a positive gap
\* away from the object it refers to, so no extension line touches or crosses
\* any foot, foundation or work-area shape.
C23_ExtensionLinesClearOfShapes ==
  plan.done
    => \A i \in 1..Len(ExtensionLines) : \A k \in 1..Len(StructuralRects) :
         ~Touches(ExtensionLines[i], StructuralRects[k])

\* the reference config: the extension lines of the first gap dimension start
\* on the left edge x = 0 of the structure and run through foundation 1 to the
\* dimension line right of it
C23_Witness ==
  /\ plan.done
  /\ plan.config = ReferenceConfig
  /\ GapDimensions[1].ext2.x1 = Zero
  /\ GapDimensions[1].ext2.x2 = Frac(214175, 1000)
  /\ Touches(GapDimensions[1].ext2, FootRects[1])
  /\ Crosses(GapDimensions[1].ext2, FoundationRects[1])
  /\ \A i \in 1..Len(ExtensionLines) : \E k \in 1..Len(StructuralRects) :
       Touches(ExtensionLines[i], StructuralRects[k])

\* ------------------------------------------------------------------------
\* Layer groups of the generated plan
\* ------------------------------------------------------------------------
PreviewComposed == Composed /\ plan.done /\ plan.via = "preview"

\* the fit of the composed plan before any missing-group message is added
PreviewFit ==
  buildFitTransform(layoutInput.input.planSvg, composed.result.slots.content,
                    layoutInput.input.planGeometryBounds,
                    layoutInput.input.planAnnotationBounds,
                    layoutInput.input.template.page.orientation)

\* C24: for every plan document produced by generatePlanSvg,
\* composePlanDocument locates both a geometry group and an annotation group,
\* so fit.warning carries no missing-group message and the annotations are
\* projected separately from the geometry.
C24_PlanGroupsLocated ==
  PreviewComposed
    => /\ resolveGroup(plan.result.svgElement, "geometry-group", "geometry") # Null
       /\ resolveGroup(plan.result.svgElement, "annotation-group", "annotation") # Null
       /\ composed.result.fit.warning = PreviewFit.warning
       /\ \E i \in 1..Len(composed.result.svgElement.nodes) :
            composed.result.svgElement.nodes[i]
              = projectAnnotationGroup(
                  resolveGroup(plan.result.svgElement, "annotation-group", "annotation"),
                  PreviewFit)

\* the preview of the reference record: neither group is found, the whole plan
\* is placed under the fit transform and both messages are in fit.warning
C24_Witness ==
  /\ PreviewComposed
  /\ plan.config = ReferenceConfig
  /\ layoutInput.input.planSvg = plan.result.svgElement
  /\ resolveGroup(plan.result.svgElement, "geometry-group", "geometry") = Null
  /\ resolveGroup(plan.result.svgElement, "annotation-group", "annotation") = Null
  /\ PreviewFit.warning = ""
  /\ composed.result.fit.warning
       = prependWarning(prependWarning("", WarnNoGeometryGroup), WarnNoAnnotationGroup)
  /\ ContentGroup(composed.result.svgElement).els = <<plan.result.svgElement>>

\* ------------------------------------------------------------------------
\* Overall dimension
\* ------------------------------------------------------------------------
\* the overall dimension is the blue one
OverallDimensions == DimensionsOfColor("blue")

\* C25: the value printed on the single overall-span dimension drawn by
\* generatePlanSvg equals metrics.totalFootSpan returned in the same result.
C25_OverallLabelIsTotalFootSpan ==
  plan.done
    => /\ Len(OverallDimensions) = 1
       /\ OverallDimensions[1].label.text = fmt(plan.result.metrics.totalFootSpan) \o "cm"

\* the reference config: the feet span 290 cm, the overall dimension runs over
\* the foundations and prints 322cm
C25_Witness ==
  /\ plan.done
  /\ plan.config = ReferenceConfig
  /\ Len(OverallDimensions) = 1
  /\ plan.result.metrics.totalFootSpan = R(290)
  /\ OverallDimensions[1].label.text = "322cm"
  /\ RSub(OverallDimensions[1].line.y2, OverallDimensions[1].line.y1) = R(322)

\* ------------------------------------------------------------------------
\* Coverage of the content slot
\* ------------------------------------------------------------------------
\* the messages of fit.warning in the order in which they are added
FitMessages ==
  <<WarnBoundsFallback, WarnScaleFallback, InfoLowCoverage, WarnNoGeometryGroup,
    WarnNoAnnotationGroup>>

RECURSIVE JoinMessages(_, _, _)
JoinMessages(S, i, acc) ==
  IF i > Len(FitMessages) THEN acc
  ELSE JoinMessages(S, i + 1,
         IF i \in S THEN prependWarning(acc, FitMessages[i]) ELSE acc)

\* the warning text carries the message
HasMessage(warning, message) ==
  \E S \in SUBSET (1..Len(FitMessages)) :
    /\ warning = JoinMessages(S, 1, "")
    /\ \E i \in S : FitMessages[i] = message

ScaleFallbackTaken == HasMessage(composed.result.fit.warning, WarnScaleFallback)
LowCoverageReported == HasMessage(composed.result.fit.warning, InfoLowCoverage)

\* C26: whenever buildFitTransform does not take the scale = 1 fallback, the
\* dominant coverage it reports equals the fill ratio 0.98, so the
\* low-coverage message (dominant coverage < 2/3) only appears together with
\* the invalid-scale fallback warning.
C26_CoverageIsFillRatio ==
  Composed
    => /\ composed.result.fit.warning \in
            {JoinMessages(S, 1, "") : S \in SUBSET (1..Len(FitMessages))}
       /\ ~ScaleFallbackTaken
            => composed.result.fit.coverage.dominantCoverage = TARGET_FILL_RATIO
       /\ ScaleFallbackTaken => composed.result.fit.scale = One
       /\ LowCoverageReported => ScaleFallbackTaken

\* a plan fitted without the fallback: the limiting axis is covered to 98 %
C26_Witness ==
  /\ Composed
  /\ ~ScaleFallbackTaken
  /\ ~LowCoverageReported
  /\ composed.result.fit.scale # One
  /\ composed.result.fit.coverage.dominantCoverage = Frac(98, 100)
  /\ RLt(composed.result.fit.coverage.widthRatio, Frac(98, 100))

\* ------------------------------------------------------------------------
\* Ids of the in-memory store
\* ------------------------------------------------------------------------
RecordsWithId(list, id) == {i \in 1..Len(list) : list[i].id = id}

\* C27: after any sequence of loadInitialData, upsert, remove and
\* importFromJsonFile on the in-memory store, no two stored records share the
\* same id.
C27_StoredIdsUnique ==
  \A i, j \in 1..Len(saunas) : saunas[i].id = saunas[j].id => i = j

\* a file with two records of id "a" was imported: both are stored
C27_Witness ==
  /\ Len(saunas) = 2
  /\ saunas[1].id = <<"a">>
  /\ saunas[2].id = <<"a">>
  /\ Cardinality(RecordsWithId(memoryRemove(saunas, <<"a">>), <<"a">>)) = 0
  /\ Len(memoryRemove(saunas, <<"a">>)) = 0
  /\ \A s \in StoreInputs :
       sanitizeStored(s).id = <<"a">> => memoryUpsert(saunas, s)[2] = saunas[2]

\* ------------------------------------------------------------------------
\* Export of the previewed document
\* ------------------------------------------------------------------------
ExportCalled == ui.exportCall # Null

\* C28: whenever the export button handler calls exportPlan, the composed
\* document was composed from the form contents as they are at that moment:
\* no export happens while a debounced re-render is still pending, so the
\* exported document never lags behind the form, nor behind the format and
\* file name read from the form at export time.
C28_ExportedDocumentIsCurrent ==
  ExportCalled
    => /\ ~ui.exportCall.timer
       /\ ui.exportCall.input.composedDocument = renderPreview(ui.exportCall.form)
       /\ ui.exportCall.input.format = ui.exportCall.form.format
       /\ ui.exportCall.input.fileNameBase
            = "fundamentplan_" \o ui.exportCall.input.composedDocument.modelName

\* the name was changed and the export button clicked before the debounce
\* timer fired: the file is named after "Fass 2", the document still shows
\* "Neues Modell"
C28_Witness ==
  /\ ExportCalled
  /\ ui.exportCall.timer
  /\ ui.exportCall.form.name = "Fass 2"
  /\ ui.exportCall.input.fileNameBase = "fundamentplan_Fass 2"
  /\ ui.exportCall.input.composedDocument.modelName = "Neues Modell"
  /\ ui.initialised

\* ------------------------------------------------------------------------
\* Revisions of saved records
\* ------------------------------------------------------------------------
Saved == submits.lastSave # Null

\* C29: every completed save of a record that already exists in the store
\* stores it with a revision exactly one greater than the revision stored
\* before that save, also when two submit handlers interleave at their
\* awaits; the stored revision is always an integer >= 1 and never decreases.
C29_SaveIncrementsRevision ==
  /\ \A id \in DOMAIN db : IsInt(db[id].revision) /\ RLe(One, db[id].revision)
  /\ Saved /\ submits.lastSave.existed
       => /\ submits.lastSave.after = RAdd(submits.lastSave.before, One)
          /\ RLe(submits.lastSave.before, submits.lastSave.after)

\* two handlers read revision 1; the first stored revision 2, the second then
\* stored revision 2 again
C29_Witness ==
  /\ Saved
  /\ submits.lastSave.existed
  /\ submits.lastSave.before = R(2)
  /\ submits.lastSave.after = R(2)
  /\ db[<<"a">>].revision = R(2)

\* ------------------------------------------------------------------------
\* Copies handed out by the template registry
\* ------------------------------------------------------------------------
\* what the registry calls return now is what they returned at first
RegistryAnswersUnchanged ==
  /\ listTemplates(registry) = listTemplates(templates)
  /\ getDefaultTemplate(registry) = getDefaultTemplate(templates)
  /\ \A templateId \in TemplateIdInputs :
       getTemplateById(registry, templateId) = getTemplateById(templates, templateId)

\* C30: modifying an object returned by listTemplates, getDefaultTemplate or
\* getTemplateById, including its nested page, margins and regions records,
\* never changes what any later registry call returns.
C30_ReturnedCopiesAreIndependent == RegistryAnswersUnchanged

\* a caller set page.widthMm of the template it got to 100: the default
\* template of the registry is now 100 mm wide
C30_Witness ==
  /\ lookup.done
  /\ lookup.shares = 1
  /\ lookup.result.page.widthMm = R(100)
  /\ getDefaultTemplate(registry).page.widthMm = R(100)
  /\ getDefaultTemplate(templates).page.widthMm = R(210)

====
